---- MODULE Spec2Model ----
(***************************************************************************)
(* Availability engine and booking commit path of the calendar booking     *)
(* service: lib/availability.ts, app/api/bookings/route.ts and             *)
(* app/api/bookings/[uid]/route.ts.                                        *)
(*                                                                         *)
(* Instants are milliseconds since Monday 2024-03-04T00:00:00Z.  date-fns  *)
(* works in the zone of the server process, which is UTC here.             *)
(***************************************************************************)
EXTENDS Integers, Sequences, FiniteSets, TLC

MinuteMs == 60 * 1000
DayMs == 24 * 60 * MinuteMs
Min(m) == m * MinuteMs

NoValue == "null"

-----------------------------------------------------------------------------
(* Bounds of the model *)

\* busy blocks handed to one call of the interval functions
MaxBlocks == 3
\* requests the clients send in one behaviour
MaxRequests == 2
\* events of the environment in one behaviour: the clock advancing, an
\* external service (calendar provider, mailer) failing, the host changing
\* the external calendar
MaxEnvEvents == 1

-----------------------------------------------------------------------------
(* date-fns and date-fns-tz *)

HostTimezone == "America/New_York"

\* offset of the wall clock of zone tz from UTC at instant t; New York
\* leaves winter time on Sunday 2024-03-10 at 07:00Z, when its wall clock
\* jumps from 02:00 to 03:00 (instant 0 is Monday 2024-03-04 00:00Z)
TzOffsetMs(tz, t) ==
  IF tz = "America/New_York"
  THEN IF t >= 6 * DayMs + Min(7 * 60) THEN Min(0 - 240) ELSE Min(0 - 300)
  ELSE IF tz = "Asia/Tokyo" THEN Min(540)
  ELSE 0

\* the offset of a wall-clock reading: guessed from the reading taken as an
\* instant, then corrected across a change of offset; a reading the wall
\* clock skips gets the larger of the two offsets
fixOffset(wall, tz) ==
  LET offset == TzOffsetMs(tz, wall)
      o2 == TzOffsetMs(tz, wall - offset)
      o3 == TzOffsetMs(tz, wall - o2)
  IN IF offset = o2 THEN offset
     ELSE IF o2 = o3 THEN o2
     ELSE IF o2 > o3 THEN o2 ELSE o3

\* every wall-clock reading converted with the winter offset of the zone
fromZonedTimeWinter(wall, tz) == wall - TzOffsetMs(tz, 0)

toZonedTime(t, tz) == t + TzOffsetMs(tz, t)
fromZonedTime(wall, tz) == wall - fixOffset(wall, tz)

addMinutes(t, m) == t + Min(m)
addDays(t, d) == t + d * DayMs
startOfDay(t) == t - (t % DayMs)
endOfDay(t) == startOfDay(t) + DayMs - 1
isAfter(a, b) == a > b
isBefore(a, b) == a < b
\* 0 = Sunday; instant 0 is a Monday
getDay(t) == (1 + (startOfDay(t) \div DayMs)) % 7
setHoursMinutes(t, h, m) == startOfDay(t) + Min(60 * h + m)

\* format(d, 'HH:mm') as the pair <<HH, mm>>
formatHHmm(t) == << (t % DayMs) \div Min(60), ((t % DayMs) \div MinuteMs) % 60 >>
\* the < of two zero-padded "HH:mm" strings
StrLess(a, b) == a[1] < b[1] \/ (a[1] = b[1] /\ a[2] < b[2])

\* format(d, 'yyyy-MM-dd') as the triple <<yyyy, MM, dd>>, for the weeks
\* around 2024-03-04
formatDate(t) == << 2024, 3, 4 + (startOfDay(t) \div DayMs) >>

parseTimeString(time) == [hours |-> time[1], minutes |-> time[2]]

areIntervalsOverlapping(l, r) == l.start < r.end /\ r.start < l.end

-----------------------------------------------------------------------------
(* Configuration rows of the database *)

WeekdayHours ==
  [i \in 1..5 |-> [day |-> i, start |-> <<9, 0>>, end |-> <<10, 0>>]]

EventTypeIds == {"et1", "et2"}

\* working hours of a host who keeps UTC: the same instants of the day
UtcHours ==
  [i \in 1..5 |-> [day |-> i, start |-> <<14, 0>>, end |-> <<15, 0>>]]

\* working hours whose end has an hour above 23: eventTypeSchema accepts any
\* two digits, and setHours carries them into the following day
LateHours ==
  << [day |-> 1, start |-> <<23, 0>>, end |-> <<24, 30>>],
     [day |-> 2, start |-> <<0, 0>>, end |-> <<1, 0>>] >>

\* et3 and et4 are the event types of a host whose timezone is UTC; the
\* booking requests below are for et1 and et2
EventTypes ==
  [e \in EventTypeIds \cup {"et3", "et4"} |->
     [userId |-> IF e \in {"et3", "et4"} THEN "admin2" ELSE "admin1",
      duration |-> 30,
      bufferBefore |-> IF e = "et2" THEN 15 ELSE 0,
      bufferAfter |-> 0,
      minimumNotice |-> 45,
      schedulingWindow |-> 1,
      slotInterval |-> 15,
      workingHours |-> IF e = "et3" THEN UtcHours
                       ELSE IF e = "et4" THEN LateHours ELSE WeekdayHours,
      timezone |-> IF e \in {"et3", "et4"} THEN "UTC" ELSE HostTimezone,
      isActive |-> TRUE,
      requiresConfirmation |-> (e = "et2"),
      locationType |-> "GOOGLE_MEET",
      hasDestination |-> TRUE]]

\* prisma.eventType.findUnique: the row, for an id that has one
getEventTypeConfig(eventTypeId) == EventTypes[eventTypeId]

-----------------------------------------------------------------------------
(* Interval algebra of lib/availability.ts *)

\* workingHours.find((wh) => wh.day === dayOfWeek): the index found, 0 for undefined
RECURSIVE findDay(_, _, _)
findDay(workingHours, dayOfWeek, i) ==
  IF i > Len(workingHours) THEN 0
  ELSE IF workingHours[i].day = dayOfWeek THEN i
  ELSE findDay(workingHours, dayOfWeek, i + 1)

RECURSIVE slotLoop(_, _, _, _)
slotLoop(currentSlotStart, workingDayEnd, duration, slotInterval) ==
  LET slotEnd == addMinutes(currentSlotStart, duration) IN
  IF isAfter(slotEnd, workingDayEnd) THEN << >>
  ELSE << [start |-> currentSlotStart, end |-> slotEnd] >>
       \o slotLoop(addMinutes(currentSlotStart, slotInterval), workingDayEnd,
                   duration, slotInterval)

\* a generator that places each slot at the end of the one before
generateBackToBack(date, workingHours, duration, slotInterval, adminTimezone) ==
  LET found == findDay(workingHours, getDay(date), 1) IN
  IF found = 0 THEN << >>
  ELSE
    LET dayConfig == workingHours[found]
        s == parseTimeString(dayConfig.start)
        e == parseTimeString(dayConfig.end)
    IN slotLoop(fromZonedTime(setHoursMinutes(date, s.hours, s.minutes), adminTimezone),
                fromZonedTime(setHoursMinutes(date, e.hours, e.minutes), adminTimezone),
                duration, duration)

generateDayCandidateSlots(date, workingHours, duration, slotInterval, adminTimezone) ==
  LET found == findDay(workingHours, getDay(date), 1) IN
  IF found = 0 THEN << >>
  ELSE
    LET dayConfig == workingHours[found]
        s == parseTimeString(dayConfig.start)
        e == parseTimeString(dayConfig.end)
        first == fromZonedTime(setHoursMinutes(date, s.hours, s.minutes), adminTimezone)
        workingDayEnd == fromZonedTime(setHoursMinutes(date, e.hours, e.minutes), adminTimezone)
    IN slotLoop(first, workingDayEnd, duration, slotInterval)

\* the overlap test on the slot without its buffers
isSlotBusyUnbuffered(slotStart, slotEnd, busyBlocks, bufferBefore, bufferAfter) ==
  \E i \in 1..Len(busyBlocks) :
    areIntervalsOverlapping([start |-> slotStart, end |-> slotEnd],
                            [start |-> busyBlocks[i].start, end |-> busyBlocks[i].end])

isSlotBusy(slotStart, slotEnd, busyBlocks, bufferBefore, bufferAfter) ==
  LET slotWithBuffer == [start |-> addMinutes(slotStart, 0 - bufferBefore),
                         end |-> addMinutes(slotEnd, bufferAfter)]
  IN \E i \in 1..Len(busyBlocks) :
       areIntervalsOverlapping(slotWithBuffer,
                               [start |-> busyBlocks[i].start, end |-> busyBlocks[i].end])

\* stable insertion sort by start, as Array.prototype.sort with the comparator
RECURSIVE insertByStart(_, _)
insertByStart(sorted, b) ==
  IF sorted = << >> THEN << b >>
  ELSE IF b.start < Head(sorted).start THEN << b >> \o sorted
  ELSE << Head(sorted) >> \o insertByStart(Tail(sorted), b)

RECURSIVE sortByStart(_)
sortByStart(blocks) ==
  IF blocks = << >> THEN << >>
  ELSE insertByStart(sortByStart(SubSeq(blocks, 1, Len(blocks) - 1)), blocks[Len(blocks)])

RECURSIVE mergeLoop(_, _, _)
mergeLoop(sorted, i, merged) ==
  IF i > Len(sorted) THEN merged
  ELSE
    LET current == sorted[i]
        last == merged[Len(merged)]
    IN IF current.start <= last.end
       THEN mergeLoop(sorted, i + 1,
              IF current.end > last.end
              THEN [merged EXCEPT ![Len(merged)].end = current.end]
              ELSE merged)
       ELSE mergeLoop(sorted, i + 1, Append(merged, current))

\* the blocks sorted and left as they are
sortedOnly(blocks) == sortByStart(blocks)

\* the earliest block alone
firstBlockOnly(blocks) ==
  IF Len(blocks) = 0 THEN << >> ELSE << sortByStart(blocks)[1] >>

mergeBusyBlocks(blocks) ==
  IF Len(blocks) = 0 THEN << >>
  ELSE LET sorted == sortByStart(blocks) IN mergeLoop(sorted, 2, << sorted[1] >>)

\* [...blocks].sort(...): the positions of the input array in sorted order;
\* the copy holds the objects of the input array, and the sort is stable
sortedOrder(blocks) ==
  [r \in 1..Len(blocks) |->
     CHOOSE k \in 1..Len(blocks) :
       Cardinality({ j \in 1..Len(blocks) :
                      \/ blocks[j].start < blocks[k].start
                      \/ (blocks[j].start = blocks[k].start /\ j < k) }) = r - 1]

\* the loop of mergeBusyBlocks on the objects: heap[k] is the object at
\* position k of the input array, last the position of the final element of
\* merged; last.end = current.end writes to that object
RECURSIVE extendLoop(_, _, _, _)
extendLoop(order, i, last, heap) ==
  IF i > Len(order) THEN heap
  ELSE LET current == order[i]
       IN IF heap[current].start <= heap[last].end
          THEN extendLoop(order, i + 1, last,
                 IF heap[current].end > heap[last].end
                 THEN [heap EXCEPT ![last].end = heap[current].end]
                 ELSE heap)
          ELSE extendLoop(order, i + 1, current, heap)

\* the objects of the input array after mergeBusyBlocks(blocks) has returned
blocksAfterMerge(blocks) ==
  IF Len(blocks) = 0 THEN blocks
  ELSE extendLoop(sortedOrder(blocks), 2, sortedOrder(blocks)[1], blocks)

-----------------------------------------------------------------------------
(* The external calendar and the Booking table, as the queries see them *)

RECURSIVE SetToSeq(_)
SetToSeq(S) ==
  IF S = {} THEN << >>
  ELSE LET x == CHOOSE y \in S : \A z \in S : y.start <= z.start
       IN << x >> \o SetToSeq(S \ {x})

Max2(a, b) == IF a > b THEN a ELSE b
Min2(a, b) == IF a < b THEN a ELSE b

\* freebusy.query of the provider: the busy time of the events inside
\* [timeMin, timeMax], one block per event
getFreeBusy(events, timeMin, timeMax) ==
  SetToSeq({ [start |-> Max2(ev.start, timeMin), end |-> Min2(ev.end, timeMax)] :
             ev \in { x \in events : x.start < timeMax /\ x.end > timeMin } })

\* getCompositeBusy for the host's one connected account: a failed fetch is
\* caught and yields no blocks
getCompositeBusy(events, timeMin, timeMax, fetchOk) ==
  IF fetchOk THEN getFreeBusy(events, timeMin, timeMax) ELSE << >>

Active == {"CONFIRMED", "PENDING"}

\* a where-clause that also matches a booking sharing an endpoint with the
\* slot
conflictsOrTouches(b, userId, startTime, endTime) ==
  /\ b.userId = userId
  /\ b.status \in Active
  /\ b.startTime <= endTime /\ b.endTime >= startTime

\* where-clause of the prisma.booking.findFirst of isSlotAvailable
conflictsWith(b, userId, startTime, endTime) ==
  /\ b.userId = userId
  /\ b.status \in Active
  /\ \/ (b.startTime <= startTime /\ b.endTime > startTime)
     \/ (b.startTime < endTime /\ b.endTime >= endTime)
     \/ (b.startTime >= startTime /\ b.endTime <= endTime)

existingBooking(table, userId, startTime, endTime) ==
  \E i \in 1..Len(table) : conflictsWith(table[i], userId, startTime, endTime)

\* the working-hours test alone, at any distance from the clock
withinWorkingHours(config, startTime, endTime, nowv) ==
  LET startInAdminTz == toZonedTime(startTime, config.timezone)
      found == findDay(config.workingHours, getDay(startInAdminTz), 1)
  IN /\ found # 0
     /\ ~(StrLess(formatHHmm(startInAdminTz), config.workingHours[found].start)
          \/ StrLess(config.workingHours[found].end,
                     formatHHmm(toZonedTime(endTime, config.timezone))))

\* isSlotAvailable up to its first await: notice, window and working hours
withinConstraints(config, startTime, endTime, nowv) ==
  LET minBookingTime == addMinutes(nowv, config.minimumNotice)
      maxBookingDate == addDays(nowv, config.schedulingWindow)
      startInAdminTz == toZonedTime(startTime, config.timezone)
      found == findDay(config.workingHours, getDay(startInAdminTz), 1)
      timeOfDay == formatHHmm(startInAdminTz)
      slotEndTime == formatHHmm(toZonedTime(endTime, config.timezone))
  IN /\ ~isBefore(startTime, minBookingTime)
     /\ ~isAfter(startTime, maxBookingDate)
     /\ found # 0
     /\ ~(StrLess(timeOfDay, config.workingHours[found].start)
          \/ StrLess(config.workingHours[found].end, slotEndTime))

\* isSlotAvailable, all of it, on one state of the clock, calendar and table
isSlotAvailable(eventTypeId, startTime, endTime, nowv, events, table, fetchOk) ==
  LET config == getEventTypeConfig(eventTypeId)
      busyBlocks == getCompositeBusy(events,
                      addMinutes(startTime, 0 - config.bufferBefore),
                      addMinutes(endTime, config.bufferAfter), fetchOk)
  IN /\ withinConstraints(config, startTime, endTime, nowv)
     /\ ~existingBooking(table, config.userId, startTime, endTime)
     /\ ~isSlotBusy(startTime, endTime, busyBlocks, config.bufferBefore, config.bufferAfter)

\* rows of the prisma.booking.findMany of generateAvailableSlots
RECURSIVE bookingsInWindow(_, _, _, _, _)
bookingsInWindow(table, i, userId, effectiveStartDate, effectiveEndDate) ==
  IF i > Len(table) THEN << >>
  ELSE (IF /\ table[i].userId = userId
           /\ table[i].status \in Active
           /\ table[i].startTime >= effectiveStartDate
           /\ table[i].endTime <= effectiveEndDate
        THEN << [start |-> table[i].startTime, end |-> table[i].endTime] >>
        ELSE << >>)
       \o bookingsInWindow(table, i + 1, userId, effectiveStartDate, effectiveEndDate)

RECURSIVE filterDay(_, _, _, _, _, _)
filterDay(daySlots, i, config, minBookingTime, maxBookingDate, mergedBusyBlocks) ==
  IF i > Len(daySlots) THEN << >>
  ELSE (IF \/ isBefore(daySlots[i].start, minBookingTime)
           \/ isAfter(daySlots[i].start, maxBookingDate)
           \/ isSlotBusy(daySlots[i].start, daySlots[i].end, mergedBusyBlocks,
                         config.bufferBefore, config.bufferAfter)
        THEN << >>
        ELSE << daySlots[i] >>)
       \o filterDay(daySlots, i + 1, config, minBookingTime, maxBookingDate, mergedBusyBlocks)

RECURSIVE dayLoop(_, _, _, _, _, _)
dayLoop(currentDate, effectiveEndDate, config, minBookingTime, maxBookingDate, mergedBusyBlocks) ==
  IF ~isBefore(currentDate, endOfDay(effectiveEndDate)) THEN << >>
  ELSE filterDay(generateDayCandidateSlots(toZonedTime(currentDate, config.timezone),
                   config.workingHours, config.duration, config.slotInterval, config.timezone),
                 1, config, minBookingTime, maxBookingDate, mergedBusyBlocks)
       \o dayLoop(addDays(currentDate, 1), effectiveEndDate, config, minBookingTime,
                  maxBookingDate, mergedBusyBlocks)

generateAvailableSlots(eventTypeId, startDate, endDate, nowv, events, table, fetchOk) ==
  LET config == getEventTypeConfig(eventTypeId)
      minBookingTime == addMinutes(nowv, config.minimumNotice)
      maxBookingDate == addDays(nowv, config.schedulingWindow)
      effectiveStartDate == IF isAfter(startDate, minBookingTime) THEN startDate ELSE minBookingTime
      effectiveEndDate == IF isBefore(endDate, maxBookingDate) THEN endDate ELSE maxBookingDate
  IN IF isAfter(effectiveStartDate, effectiveEndDate) THEN << >>
     ELSE LET busyBlocks == getCompositeBusy(events, effectiveStartDate, effectiveEndDate, fetchOk)
              allBusyBlocks == busyBlocks \o bookingsInWindow(table, 1, config.userId,
                                               effectiveStartDate, effectiveEndDate)
              mergedBusyBlocks == mergeBusyBlocks(allBusyBlocks)
          IN dayLoop(startOfDay(effectiveStartDate), effectiveEndDate, config,
                     minBookingTime, maxBookingDate, mergedBusyBlocks)

-----------------------------------------------------------------------------
(* State *)

Procs == {1, 2}

VARIABLES
  now,             \* the clock, new Date() / Date.now()
  bookings,        \* the Booking table, in insertion order; uid = position
  calendar,        \* events of the host's external calendar
  rateLimitStore,  \* the in-process Map of lib/rate-limit.ts
  mail,            \* emails delivered, by <<template, booking uid>>
  req,             \* per handler: the request it serves and where it stands
  sent, envEvents, \* counters of the bounds
  args, ret,       \* a call of a library function on its own: arguments, result
  accounts,        \* the ConnectedAccount table
  client,          \* per caller of getCompositeBusy: where it stands
  provider,        \* the OAuth provider: refresh calls served, tokens issued
  granted          \* per limiter key: the open window and the calls allowed in it

appVars == << now, bookings, calendar, rateLimitStore, mail, req, sent, envEvents >>
libVars == << args, ret, accounts, client, provider, granted >>
vars == << now, bookings, calendar, rateLimitStore, mail, req, sent, envEvents,
           args, ret, accounts, client, provider, granted >>

Now0 == Min(13 * 60 + 15)

\* slot starts of day 0: 09:00, 09:15 and 09:30 in New York
T1400 == Min(14 * 60)
T1415 == Min(14 * 60 + 15)
T1430 == Min(14 * 60 + 30)

NoKey == << >>

\* no library call on its own is under way
NoCall == [op |-> "none"]

\* bodies of the POST requests the clients send; the last one fails the schema
PostBodies ==
  { [valid |-> TRUE, eventTypeId |-> "et1", startTime |-> T1400, idempotencyKey |-> <<"k1">>],
    [valid |-> TRUE, eventTypeId |-> "et1", startTime |-> T1400, idempotencyKey |-> <<"k2">>],
    [valid |-> TRUE, eventTypeId |-> "et1", startTime |-> T1415, idempotencyKey |-> <<"k2">>],
    [valid |-> TRUE, eventTypeId |-> "et2", startTime |-> T1430, idempotencyKey |-> NoKey],
    [valid |-> FALSE, eventTypeId |-> "et1", startTime |-> T1400, idempotencyKey |-> <<"k1">>] }

\* bodies of the PATCH requests
PatchBodies ==
  { [valid |-> TRUE, newStartTime |-> T1415],
    [valid |-> TRUE, newStartTime |-> T1430],
    [valid |-> FALSE, newStartTime |-> T1430] }
GuestEmail == "Guest@Example.com"
OtherEmail == "other@example.com"

\* an event the host adds to the calendar without the service
ForeignEvent == [id |-> 0, start |-> T1430, end |-> Min(15 * 60)]

BOOKING_MAX == 10
WINDOW_MS == 60 * 1000
RateKey == "booking:ip1"

NoResp ==
  [status |-> 0, at |-> "idle", uid |-> 0, startTime |-> 0, endTime |-> 0, meetingUrl |-> 0,
   headers |-> << >>]

Idle ==
  [op |-> "none", pc |-> "idle", valid |-> TRUE, keyStored |-> FALSE, eventTypeId |-> "et1",
   startTime |-> 0, endTime |-> 0, key |-> NoKey, uid |-> 0,
   gev |-> 0, busy |-> FALSE, meetingUrl |-> 0, resp |-> NoResp]

Templates == {"confirmation", "host", "cancellation"}

\* a booking made before the behaviour starts: POST et1 at 14:00Z, key k0
Booking0 ==
  [uid |-> 1, userId |-> "admin1", eventTypeId |-> "et1", startTime |-> T1400,
   endTime |-> T1430, attendeeEmail |-> GuestEmail, idempotencyKey |-> <<"k0">>,
   status |-> "CONFIRMED", googleEventId |-> 1, meetingUrl |-> 1]

Uids == 1..(MaxRequests + 1)

\* the req record: op, pc and the fields of the request; keyStored records
\* whether the key of the body was that of a stored booking on arrival;
\* resp.at is the step that answered
\* the states the behaviours start from: nothing booked yet, with the
\* client's rate-limit window fresh or used up, or Booking0 made
Init ==
  /\ now = Now0
  /\ \/ /\ bookings = << >>
        /\ calendar = {}
        /\ rateLimitStore \in
             { << >>,
               [k \in {RateKey} |-> [count |-> BOOKING_MAX, resetAt |-> Now0 + WINDOW_MS]] }
        /\ mail = [m \in Templates \X Uids |-> 0]
     \/ /\ bookings = << Booking0 >>
        /\ calendar = {[id |-> 1, start |-> T1400, end |-> T1430]}
        /\ rateLimitStore = << >>
        /\ mail = [m \in Templates \X Uids |->
                     IF m[2] = 1 /\ m[1] # "cancellation" THEN 1 ELSE 0]
  /\ req = [p \in Procs |-> Idle]
  /\ sent = 0
  /\ envEvents = 0
  /\ args = NoCall /\ ret = NoCall
  /\ accounts = << >>
  /\ client = [p \in Procs |-> NoCall]
  /\ provider = << >>
  /\ granted = << >>

Free(p) == req[p].pc \in {"idle", "done"}

\* the outcomes an external call can have: it may fail while the budget lasts
Outcomes == IF envEvents < MaxEnvEvents THEN {TRUE, FALSE} ELSE {TRUE}
Cost(ok) == IF ok THEN 0 ELSE 1

Respond(r, status, uid, startTime, endTime, meetingUrl) ==
  [r EXCEPT !.pc = "done", !.busy = FALSE, !.gev = 0, !.meetingUrl = 0,
            !.resp = [status |-> status, at |-> r.pc, uid |-> uid, startTime |-> startTime,
                      endTime |-> endTime, meetingUrl |-> meetingUrl, headers |-> << >>]]

Fail(r, status) == Respond(r, status, 0, 0, 0, 0)

\* the 429 response, with X-RateLimit-Remaining and X-RateLimit-Reset
TooManyRequests(r, rl) ==
  [Fail(r, 429) EXCEPT !.resp.headers = << rl.remaining, rl.resetAt >>]

-----------------------------------------------------------------------------
(* lib/rate-limit.ts *)

\* a limiter that opens a window on every call
rateLimitEveryCall(store, key, max, windowMs, nowv) ==
  [store |-> [k \in DOMAIN store \cup {key} |->
                IF k = key THEN [count |-> 1, resetAt |-> nowv + windowMs] ELSE store[k]],
   success |-> TRUE, remaining |-> max - 1, resetAt |-> nowv + windowMs]

\* a limiter whose window starts again at every call
rateLimitSliding(store, key, max, windowMs, nowv) ==
  LET count == IF key \in DOMAIN store /\ store[key].resetAt > nowv
               THEN store[key].count + 1 ELSE 1
  IN [store |-> [k \in DOMAIN store \cup {key} |->
                   IF k = key THEN [count |-> count, resetAt |-> nowv + windowMs]
                   ELSE store[k]],
      success |-> count <= max,
      remaining |-> IF count > max THEN 0 ELSE max - count,
      resetAt |-> nowv + windowMs]

\* a limiter that reports what remained before the call
rateLimitBeforeCall(store, key, max, windowMs, nowv) ==
  LET rl == rateLimitEveryCall(store, key, max, windowMs, nowv)
      count == IF key \in DOMAIN store /\ store[key].resetAt > nowv
               THEN store[key].count + 1 ELSE 1
  IN [store |-> [rl.store EXCEPT ![key] =
                   [count |-> count,
                    resetAt |-> IF count = 1 THEN nowv + windowMs ELSE store[key].resetAt]],
      success |-> count <= max,
      remaining |-> IF count > max THEN 0 ELSE max - count + 1,
      resetAt |-> IF count = 1 THEN nowv + windowMs ELSE store[key].resetAt]

rateLimit(store, key, max, windowMs, nowv) ==
  IF key \notin DOMAIN store \/ store[key].resetAt <= nowv
  THEN [store |-> [k \in DOMAIN store \cup {key} |->
                     IF k = key THEN [count |-> 1, resetAt |-> nowv + windowMs] ELSE store[k]],
        success |-> TRUE, remaining |-> max - 1, resetAt |-> nowv + windowMs]
  ELSE LET count == store[key].count + 1 IN
       [store |-> [store EXCEPT ![key].count = count],
        success |-> count <= max,
        remaining |-> IF count > max THEN 0 ELSE max - count,
        resetAt |-> store[key].resetAt]

-----------------------------------------------------------------------------
(* Unique indexes of the Booking table *)

slotKey(b) == << b.userId, b.startTime, b.endTime, b.eventTypeId >>

\* a table without unique indexes
noUniqueIndex(table, b) == FALSE

\* P2002: another row holds the same index key as row b
uniqueViolation(table, b) ==
  \E i \in 1..Len(table) :
     /\ table[i].uid # b.uid
     /\ \/ slotKey(table[i]) = slotKey(b)
        \/ table[i].idempotencyKey = b.idempotencyKey

\* a lookup that finds no row
findNothing(table, key) == 0

\* prisma.booking.findUnique({where: {idempotencyKey}}): position, 0 for null
findByKey(table, key) ==
  IF \E i \in 1..Len(table) : table[i].idempotencyKey = key
  THEN CHOOSE i \in 1..Len(table) : table[i].idempotencyKey = key
  ELSE 0

hashString(x) == << "sha256" >> \o x

toLowerCase(str) ==
  IF str = "Guest@Example.com" THEN "guest@example.com" ELSE str

\* who sends a PATCH or DELETE: the email of the body and the session user
Callers ==
  { [email |-> "guest@example.com", session |-> NoValue],
    [email |-> OtherEmail, session |-> NoValue],
    [email |-> NoValue, session |-> "admin1"],
    [email |-> NoValue, session |-> NoValue] }

\* the callers a request of p may come from: any, or the one the run fixes
CallersOf(p) == IF args.op = "DELETE" THEN {args.caller[p]} ELSE Callers

authorized(caller, booking) ==
  LET isAdmin == caller.session = booking.userId
      isBooker == caller.email # NoValue
                  /\ toLowerCase(caller.email) = toLowerCase(booking.attendeeEmail)
  IN isAdmin \/ isBooker

\* a lookup that does not test isActive
usableIfFound(eventTypeId) == eventTypeId \in EventTypeIds

\* prisma.eventType.findUnique and the test eventType && eventType.isActive;
\* a run that follows the event-type rows keeps the active ones in args
usable(eventTypeId) ==
  /\ eventTypeId \in EventTypeIds
  /\ IF args.op = "eventTypes" THEN eventTypeId \in args.active
     ELSE EventTypes[eventTypeId].isActive

\* the bodies a POST may carry: in a run that follows the event-type rows, one
\* names an event type that does not exist and one fails the schema; in a run
\* of cancellations, the retry of the request that made Booking0
BodiesOfPost ==
  IF args.op = "eventTypes"
  THEN { [valid |-> TRUE, eventTypeId |-> "et1", startTime |-> T1400, idempotencyKey |-> <<"k0">>],
         [valid |-> TRUE, eventTypeId |-> "et1", startTime |-> T1415, idempotencyKey |-> <<"k1">>],
         [valid |-> TRUE, eventTypeId |-> "et0", startTime |-> T1415, idempotencyKey |-> <<"k2">>],
         [valid |-> FALSE, eventTypeId |-> "et0", startTime |-> T1415, idempotencyKey |-> <<"k2">>] }
  ELSE IF args.op = "DELETE"
  THEN { [valid |-> TRUE, eventTypeId |-> "et1", startTime |-> T1400, idempotencyKey |-> <<"k0">>] }
  ELSE PostBodies

\* a parse that accepts every body
safeParseAnything(body) == TRUE

\* bookingSchema.safeParse / rescheduleBookingSchema.safeParse: success
safeParse(body) == body.valid

-----------------------------------------------------------------------------
(* POST /api/bookings *)

\* a request arrives: rate limit, schema validation, idempotency key
PostStart(p) ==
  /\ Free(p)
  /\ sent < MaxRequests
  /\ sent' = sent + 1
  /\ \E body \in BodiesOfPost :
       LET rl == rateLimit(rateLimitStore, RateKey, BOOKING_MAX, WINDOW_MS, now)
           idempotencyKey ==
             IF body.idempotencyKey # NoKey THEN body.idempotencyKey
             ELSE hashString(<< body.eventTypeId, body.startTime, GuestEmail, now >>)
           r == [Idle EXCEPT !.op = "POST", !.pc = "arrive", !.valid = body.valid,
                             !.keyStored = \E i \in 1..Len(bookings) :
                                bookings[i].idempotencyKey = body.idempotencyKey,
                             !.eventTypeId = body.eventTypeId,
                             !.startTime = body.startTime, !.key = body.idempotencyKey]
       IN /\ rateLimitStore' = rl.store
          /\ req' = [req EXCEPT ![p] =
                IF ~rl.success THEN TooManyRequests(r, rl)
                ELSE IF ~safeParse(body) THEN Fail(r, 400)
                ELSE [r EXCEPT !.pc = "lookup", !.key = idempotencyKey]]
  /\ UNCHANGED << now, bookings, calendar, mail, envEvents >>
  /\ UNCHANGED libVars

\* findUnique by idempotency key, then the event type
PostLookup(p) ==
  /\ req[p].op = "POST" /\ req[p].pc = "lookup"
  /\ LET r == req[p]
         existing == findByKey(bookings, r.key)
     IN req' = [req EXCEPT ![p] =
          IF existing # 0
          THEN Respond(r, 200, bookings[existing].uid, bookings[existing].startTime,
                       bookings[existing].endTime, bookings[existing].meetingUrl)
          ELSE IF ~usable(r.eventTypeId)
          THEN Fail(r, 404)
          ELSE [r EXCEPT !.pc = "avail1",
                         !.endTime = addMinutes(r.startTime, EventTypes[r.eventTypeId].duration)]]
  /\ UNCHANGED << now, bookings, calendar, rateLimitStore, mail, sent, envEvents >>
  /\ UNCHANGED libVars

\* isSlotAvailable, first part: the clock is read, notice, window and working
\* hours are checked, and the busy blocks are fetched from the provider
Avail1(p) ==
  /\ req[p].pc = "avail1"
  /\ LET r == req[p]
         config == getEventTypeConfig(r.eventTypeId)
     IN IF ~withinConstraints(config, r.startTime, r.endTime, now)
        THEN /\ req' = [req EXCEPT ![p] = Fail(r, 409)]
             /\ UNCHANGED envEvents
        ELSE \E fetchOk \in Outcomes :
               /\ envEvents' = envEvents + Cost(fetchOk)
               /\ req' = [req EXCEPT ![p] = [r EXCEPT !.pc = "avail2", !.busy =
                     isSlotBusy(r.startTime, r.endTime,
                       getCompositeBusy(calendar,
                         addMinutes(r.startTime, 0 - config.bufferBefore),
                         addMinutes(r.endTime, config.bufferAfter), fetchOk),
                       config.bufferBefore, config.bufferAfter)]]
  /\ UNCHANGED << now, bookings, calendar, rateLimitStore, mail, sent >>
  /\ UNCHANGED libVars

\* isSlotAvailable, second part: the Booking table is queried and the answer
\* is used by the caller (POST: destination calendar; PATCH: update)
Avail2(p) ==
  /\ req[p].pc = "avail2"
  /\ LET r == req[p]
         config == getEventTypeConfig(r.eventTypeId)
         available == ~existingBooking(bookings, config.userId, r.startTime, r.endTime)
                      /\ ~r.busy
     IN req' = [req EXCEPT ![p] =
          IF ~available THEN Fail(r, 409)
          ELSE IF r.op = "PATCH" THEN [r EXCEPT !.pc = "patchUpdate", !.busy = FALSE]
          ELSE IF ~config.hasDestination THEN Fail(r, 500)
          ELSE [r EXCEPT !.pc = "insert", !.busy = FALSE]]
  /\ UNCHANGED << now, bookings, calendar, rateLimitStore, mail, sent, envEvents >>
  /\ UNCHANGED libVars

newBooking(table, r) ==
  [uid |-> Len(table) + 1,
   userId |-> EventTypes[r.eventTypeId].userId,
   eventTypeId |-> r.eventTypeId,
   startTime |-> r.startTime,
   endTime |-> r.endTime,
   attendeeEmail |-> GuestEmail,
   idempotencyKey |-> r.key,
   status |-> IF EventTypes[r.eventTypeId].requiresConfirmation THEN "PENDING" ELSE "CONFIRMED",
   googleEventId |-> 0,
   meetingUrl |-> 0]

\* the transaction: tx.booking.create under the unique indexes
PostInsert(p) ==
  /\ req[p].op = "POST" /\ req[p].pc = "insert"
  /\ LET r == req[p]
         b == newBooking(bookings, r)
     IN IF uniqueViolation(bookings, b)
        THEN /\ req' = [req EXCEPT ![p] = Fail(r, 409)]
             /\ UNCHANGED bookings
        ELSE /\ bookings' = Append(bookings, b)
             /\ req' = [req EXCEPT ![p] = [r EXCEPT !.pc = "calendar", !.uid = b.uid]]
  /\ UNCHANGED << now, calendar, rateLimitStore, mail, sent, envEvents >>
  /\ UNCHANGED libVars

\* a calendar error that is not caught: the outer catch answers 500
calendarErrorUncaught(r) == Fail(r, 500)

\* catch (calendarError): logged, the handler goes on to the emails
calendarError(r) == [r EXCEPT !.pc = "email"]

\* createCalendarEvent on the destination calendar; a throw is caught
PostCalendar(p) ==
  /\ req[p].op = "POST" /\ req[p].pc = "calendar"
  /\ LET r == req[p] IN
     \E ok \in Outcomes :
       /\ envEvents' = envEvents + Cost(ok)
       /\ IF ok
          THEN /\ calendar' = calendar \cup
                     {[id |-> r.uid, start |-> r.startTime, end |-> r.endTime]}
               /\ req' = [req EXCEPT ![p] = [r EXCEPT !.pc = "update", !.gev = r.uid,
                     !.meetingUrl =
                       IF EventTypes[r.eventTypeId].locationType = "GOOGLE_MEET"
                       THEN r.uid ELSE 0]]
          ELSE /\ UNCHANGED calendar
               /\ req' = [req EXCEPT ![p] = calendarError(r)]
  /\ UNCHANGED << now, bookings, rateLimitStore, mail, sent >>
  /\ UNCHANGED libVars

\* prisma.booking.update with the Google Calendar info
PostUpdate(p) ==
  /\ req[p].op = "POST" /\ req[p].pc = "update"
  /\ LET r == req[p] IN
       /\ bookings' = [bookings EXCEPT ![r.uid].googleEventId = r.gev,
                                       ![r.uid].meetingUrl = r.meetingUrl]
       /\ req' = [req EXCEPT ![p] = [r EXCEPT !.pc = "email"]]
  /\ UNCHANGED << now, calendar, rateLimitStore, mail, sent, envEvents >>
  /\ UNCHANGED libVars

Deliver(m, template, uid, ok) ==
  IF ok THEN [m EXCEPT ![<< template, uid >>] = @ + 1] ELSE m

\* both confirmation emails, a throw is caught; then the 201
PostEmail(p) ==
  /\ req[p].op = "POST" /\ req[p].pc = "email"
  /\ LET r == req[p] IN
     \E ok1 \in Outcomes, ok2 \in Outcomes :
       /\ envEvents + Cost(ok1) + Cost(ok2) <= MaxEnvEvents
       /\ envEvents' = envEvents + Cost(ok1) + Cost(ok2)
       /\ mail' = Deliver(Deliver(mail, "confirmation", r.uid, ok1), "host", r.uid, ok2)
       /\ req' = [req EXCEPT ![p] =
             Respond(r, 201, r.uid, r.startTime, r.endTime, r.meetingUrl)]
  /\ UNCHANGED << now, bookings, calendar, rateLimitStore, sent >>
  /\ UNCHANGED libVars

-----------------------------------------------------------------------------
(* PATCH /api/bookings/[uid] *)

\* a request arrives: schema validation, findUnique by uid, status,
\* authorization, the new end time
PatchStart(p) ==
  /\ Free(p)
  /\ sent < MaxRequests
  /\ sent' = sent + 1
  /\ \E body \in PatchBodies, uid \in 1..(Len(bookings) + 1), caller \in Callers :
       LET newStartTime == body.newStartTime
           r == [Idle EXCEPT !.op = "PATCH", !.pc = "arrive", !.valid = body.valid, !.uid = uid,
                             !.startTime = newStartTime]
           found == [r EXCEPT !.pc = "lookup"]
       IN /\ req' = [req EXCEPT ![p] =
                IF ~safeParse(body) THEN Fail(r, 400)
                ELSE IF uid > Len(bookings) THEN Fail(found, 404)
                ELSE IF bookings[uid].status \notin Active THEN Fail(found, 400)
                ELSE IF ~authorized(caller, bookings[uid]) THEN Fail(found, 401)
                ELSE [r EXCEPT !.pc = "avail1",
                               !.eventTypeId = bookings[uid].eventTypeId,
                               !.endTime = addMinutes(newStartTime,
                                  EventTypes[bookings[uid].eventTypeId].duration),
                               !.gev = bookings[uid].googleEventId]]
  /\ UNCHANGED << now, bookings, calendar, rateLimitStore, mail, envEvents >>
  /\ UNCHANGED libVars

\* prisma.booking.update of startTime and endTime; P2002 is answered 500
PatchUpdate(p) ==
  /\ req[p].op = "PATCH" /\ req[p].pc = "patchUpdate"
  /\ LET r == req[p]
         b == [bookings[r.uid] EXCEPT !.startTime = r.startTime, !.endTime = r.endTime]
     IN IF uniqueViolation(bookings, b)
        THEN /\ req' = [req EXCEPT ![p] = Fail(r, 500)]
             /\ UNCHANGED bookings
        ELSE /\ bookings' = [bookings EXCEPT ![r.uid] = b]
             /\ req' = [req EXCEPT ![p] = [r EXCEPT !.pc = "patchCalendar"]]
  /\ UNCHANGED << now, calendar, rateLimitStore, mail, sent, envEvents >>
  /\ UNCHANGED libVars

\* updateCalendarEvent when the booking read at the start had an event; a
\* throw is caught; then the 200
PatchCalendar(p) ==
  /\ req[p].op = "PATCH" /\ req[p].pc = "patchCalendar"
  /\ LET r == req[p] IN
     \E ok \in Outcomes :
       /\ (r.gev = 0) => ok
       /\ envEvents' = envEvents + Cost(ok)
       /\ calendar' =
            IF r.gev # 0 /\ ok
            THEN { IF ev.id = r.gev
                   THEN [ev EXCEPT !.start = r.startTime, !.end = r.endTime] ELSE ev :
                   ev \in calendar }
            ELSE calendar
       /\ req' = [req EXCEPT ![p] = Respond(r, 200, r.uid, r.startTime, r.endTime, 0)]
  /\ UNCHANGED << now, bookings, rateLimitStore, mail, sent >>
  /\ UNCHANGED libVars

-----------------------------------------------------------------------------
(* DELETE /api/bookings/[uid] *)

\* a request arrives: findUnique by uid, status, authorization
DeleteStart(p) ==
  /\ Free(p)
  /\ sent < MaxRequests
  /\ sent' = sent + 1
  /\ \E uid \in 1..(Len(bookings) + 1), caller \in CallersOf(p) :
       LET r == [Idle EXCEPT !.op = "DELETE", !.pc = "arrive", !.uid = uid] IN
       req' = [req EXCEPT ![p] =
         IF uid > Len(bookings) THEN Fail(r, 404)
         ELSE IF bookings[uid].status = "CANCELLED" THEN Fail(r, 400)
         ELSE IF ~authorized(caller, bookings[uid]) THEN Fail(r, 401)
         ELSE [r EXCEPT !.pc = "cancel",
                        !.startTime = bookings[uid].startTime,
                        !.endTime = bookings[uid].endTime,
                        !.gev = bookings[uid].googleEventId]]
  /\ UNCHANGED << now, bookings, calendar, rateLimitStore, mail, envEvents >>
  /\ UNCHANGED libVars

\* prisma.booking.update to CANCELLED
DeleteUpdate(p) ==
  /\ req[p].op = "DELETE" /\ req[p].pc = "cancel"
  /\ bookings' = [bookings EXCEPT ![req[p].uid].status = "CANCELLED"]
  /\ req' = [req EXCEPT ![p].pc = "cleanup"]
  /\ UNCHANGED << now, calendar, rateLimitStore, mail, sent, envEvents >>
  /\ UNCHANGED libVars

\* deleteCalendarEvent when the booking read at the start had an event, the
\* cancellation email, each with its throw caught; then the 200
DeleteCleanup(p) ==
  /\ req[p].op = "DELETE" /\ req[p].pc = "cleanup"
  /\ LET r == req[p] IN
     \E ok1 \in Outcomes, ok2 \in Outcomes :
       /\ (r.gev = 0) => ok1
       /\ envEvents + Cost(ok1) + Cost(ok2) <= MaxEnvEvents
       /\ envEvents' = envEvents + Cost(ok1) + Cost(ok2)
       /\ calendar' = IF r.gev # 0 /\ ok1
                      THEN { ev \in calendar : ev.id # r.gev } ELSE calendar
       /\ mail' = Deliver(mail, "cancellation", r.uid, ok2)
       /\ req' = [req EXCEPT ![p] = Respond(r, 200, 0, 0, 0, 0)]
  /\ UNCHANGED << now, bookings, rateLimitStore, sent >>
  /\ UNCHANGED libVars

-----------------------------------------------------------------------------
(* Environment *)

Tick ==
  /\ envEvents < MaxEnvEvents
  /\ envEvents' = envEvents + 1
  /\ now' = now + Min(15)
  /\ UNCHANGED << bookings, calendar, rateLimitStore, mail, req, sent >>
  /\ UNCHANGED libVars

\* the host adds or removes an event of their own in the external calendar
CalendarChange ==
  /\ envEvents < MaxEnvEvents
  /\ envEvents' = envEvents + 1
  /\ calendar' = IF ForeignEvent \in calendar
                 THEN calendar \ {ForeignEvent} ELSE calendar \cup {ForeignEvent}
  /\ UNCHANGED << now, bookings, rateLimitStore, mail, req, sent >>
  /\ UNCHANGED libVars

Next ==
  \/ \E p \in Procs : PostStart(p)
  \/ \E p \in Procs : PostLookup(p)
  \/ \E p \in Procs : Avail1(p)
  \/ \E p \in Procs : Avail2(p)
  \/ \E p \in Procs : PostInsert(p)
  \/ \E p \in Procs : PostCalendar(p)
  \/ \E p \in Procs : PostUpdate(p)
  \/ \E p \in Procs : PostEmail(p)
  \/ \E p \in Procs : PatchStart(p)
  \/ \E p \in Procs : PatchUpdate(p)
  \/ \E p \in Procs : PatchCalendar(p)
  \/ \E p \in Procs : DeleteStart(p)
  \/ \E p \in Procs : DeleteUpdate(p)
  \/ \E p \in Procs : DeleteCleanup(p)
  \/ Tick
  \/ CalendarChange

Spec == Init /\ [][Next]_vars

-----------------------------------------------------------------------------
(* The interval functions of lib/availability.ts, called on their own *)

Instants == {T1400, T1415, T1430, T1430 + Min(15)}
CalendarIds == {"cal1", "cal2"}

\* busy blocks as getFreeBusy and the Booking table yield them: start < end
BusyBlocks ==
  { [start |-> ab[1], end |-> ab[2], calendarId |-> c] :
      ab \in { x \in Instants \X Instants : x[1] < x[2] }, c \in CalendarIds }

BlockLists == UNION { [1..n -> BusyBlocks] : n \in 0..MaxBlocks }

\* slots and buffers (minutes) of the calls
SlotArgs ==
  { [start |-> T1415, end |-> T1430], [start |-> T1415, end |-> T1430 + Min(15)],
    [start |-> T1400, end |-> T1415], [start |-> T1400, end |-> T1430 + Min(15)] }
BufferArgs == { << 0, 0 >>, << 15, 0 >>, << 0, 15 >> }

InitIntervals ==
  /\ now = Now0
  /\ bookings = << >> /\ calendar = {}
  /\ rateLimitStore = << >>
  /\ mail = [m \in Templates \X Uids |-> 0]
  /\ req = [p \in Procs |-> Idle]
  /\ sent = 0 /\ envEvents = 0
  /\ accounts = << >>
  /\ client = [p \in Procs |-> NoCall]
  /\ provider = << >>
  /\ granted = << >>
  /\ \E blocks \in BlockLists, slot \in SlotArgs, buffers \in BufferArgs :
       args = [op |-> "intervals", blocks |-> blocks, slot |-> slot,
               bufferBefore |-> buffers[1], bufferAfter |-> buffers[2]]
  /\ ret = NoCall

CallMergeBusyBlocks ==
  /\ ret = NoCall
  /\ ret' = [op |-> "mergeBusyBlocks", merged |-> mergeBusyBlocks(args.blocks),
             blocks |-> blocksAfterMerge(args.blocks)]
  /\ UNCHANGED << appVars, args, accounts, client, provider, granted >>

CallIsSlotBusy ==
  /\ ret = NoCall
  /\ ret' = [op |-> "isSlotBusy",
             busy |-> isSlotBusy(args.slot.start, args.slot.end, args.blocks,
                                 args.bufferBefore, args.bufferAfter)]
  /\ UNCHANGED << appVars, args, accounts, client, provider, granted >>

\* generateAvailableSlots on one candidate: the blocks of all calendars are
\* merged and the slot is tested against the merged blocks
CallCompositeBusy ==
  /\ ret = NoCall
  /\ ret' = [op |-> "composite",
             busy |-> isSlotBusy(args.slot.start, args.slot.end,
                                 mergeBusyBlocks(args.blocks),
                                 args.bufferBefore, args.bufferAfter)]
  /\ UNCHANGED << appVars, args, accounts, client, provider, granted >>

\* Booking tables made of the blocks: the rows on cal1 are bookings of the
\* host admin1, PENDING or CONFIRMED; the rows on cal2 are PENDING bookings of
\* the host, CANCELLED ones, or bookings of another host
BookingTables(blocks) ==
  { [i \in 1..Len(blocks) |->
       [startTime |-> blocks[i].start, endTime |-> blocks[i].end,
        userId |-> IF blocks[i].calendarId = "cal1" THEN "admin1" ELSE k[2],
        status |-> IF blocks[i].calendarId = "cal1" THEN k[1] ELSE k[3]]] :
    k \in { << "CONFIRMED", "admin1", "PENDING" >>,
            << "CONFIRMED", "admin1", "CANCELLED" >>,
            << "PENDING", "admin2", "CONFIRMED" >> } }

\* the prisma.booking.findFirst of isSlotAvailable for a slot of admin1
CallFindFirst ==
  /\ ret = NoCall
  /\ \E table \in BookingTables(args.blocks) :
       ret' = [op |-> "findFirst", table |-> table,
               found |-> existingBooking(table, "admin1", args.slot.start, args.slot.end)]
  /\ UNCHANGED << appVars, args, accounts, client, provider, granted >>

NextIntervals ==
  \/ CallMergeBusyBlocks
  \/ CallIsSlotBusy
  \/ CallCompositeBusy
  \/ CallFindFirst

SpecIntervals == InitIntervals /\ [][NextIntervals]_vars

-----------------------------------------------------------------------------
(* generateDayCandidateSlots called on its own *)

\* the date argument: wall-clock instants of Sunday, Monday, Tuesday and
\* Saturday of the week and of Sunday 2024-03-10, at several times of the day
DayArgs ==
  { d * DayMs + Min(m) : d \in {0 - 1, 0, 1, 5, 6}, m \in {0, 9 * 60 + 30, 19 * 60} }

\* working hours of one event type: the rows above, Sunday 09:00-17:00,
\* Sunday hours that start at a reading the New York wall clock skips on
\* 2024-03-10, Sunday hours that end before they start, hours that leave
\* room for one slot or for none, and no hours at all
HoursArgs ==
  { WeekdayHours, UtcHours, LateHours,
    << [day |-> 0, start |-> <<9, 0>>, end |-> <<17, 0>>] >>,
    << [day |-> 0, start |-> <<2, 30>>, end |-> <<4, 0>>] >>,
    << [day |-> 0, start |-> <<2, 30>>, end |-> <<1, 50>>] >>,
    << [day |-> 1, start |-> <<9, 0>>, end |-> <<9, 30>>] >>,
    << [day |-> 1, start |-> <<9, 0>>, end |-> <<9, 20>>],
       [day |-> 2, start |-> <<10, 0>>, end |-> <<9, 0>>] >>,
    << >> }

DurationArgs == {20, 30, 45}
IntervalArgs == {15, 30}

InitDay ==
  /\ now = Now0
  /\ bookings = << >> /\ calendar = {}
  /\ rateLimitStore = << >>
  /\ mail = [m \in Templates \X Uids |-> 0]
  /\ req = [p \in Procs |-> Idle]
  /\ sent = 0 /\ envEvents = 0
  /\ accounts = << >>
  /\ client = [p \in Procs |-> NoCall]
  /\ provider = << >>
  /\ granted = << >>
  /\ \E date \in DayArgs, workingHours \in HoursArgs, duration \in DurationArgs,
        slotInterval \in IntervalArgs, adminTimezone \in {HostTimezone, "UTC"} :
       args = [op |-> "day", date |-> date, workingHours |-> workingHours,
               duration |-> duration, slotInterval |-> slotInterval,
               adminTimezone |-> adminTimezone]
  /\ ret = NoCall

CallGenerateDayCandidateSlots ==
  /\ args.op = "day" /\ ret = NoCall
  /\ ret' = [op |-> "generateDayCandidateSlots",
             slots |-> generateDayCandidateSlots(args.date, args.workingHours, args.duration,
                                                 args.slotInterval, args.adminTimezone)]
  /\ UNCHANGED << appVars, args, accounts, client, provider, granted >>

NextDay == CallGenerateDayCandidateSlots

SpecDay == InitDay /\ [][NextDay]_vars

-----------------------------------------------------------------------------
(* generateAvailableSlots and isSlotAvailable, called on their own *)

\* clock values: Monday 13:15Z and Monday 14:10Z
Clocks == {Now0, T1400 + Min(10)}
SlotEventTypeIds == EventTypeIds \cup {"et3", "et4"}
\* requested ranges: from Monday 00:00Z, Monday 14:15Z, Tuesday 00:00Z or
\* Thursday 00:00Z, to Tuesday 00:00Z or Wednesday 00:00Z
StartDates == {0, T1415, DayMs, 3 * DayMs}
EndDates == {DayMs, 2 * DayMs}
\* starts asked of isSlotAvailable: the Monday and Tuesday slots, Tuesday
\* 04:45Z (Monday 23:45 in New York) and Monday 23:45Z
Starts ==
  Instants \cup { t + DayMs : t \in Instants }
    \cup {DayMs + Min(4 * 60 + 45), DayMs - Min(15)}

InitSlots ==
  /\ now \in Clocks
  /\ \/ bookings = << >> /\ calendar = {}
     \/ bookings = << Booking0 >> /\ calendar = {[id |-> 1, start |-> T1400, end |-> T1430]}
  /\ rateLimitStore = << >>
  /\ mail = [m \in Templates \X Uids |-> 0]
  /\ req = [p \in Procs |-> Idle]
  /\ sent = 0 /\ envEvents = 0
  /\ accounts = << >>
  /\ client = [p \in Procs |-> NoCall]
  /\ provider = << >>
  /\ granted = << >>
  /\ \E e \in SlotEventTypeIds, startDate \in StartDates, endDate \in EndDates :
       args = [op |-> "slots", eventTypeId |-> e, startDate |-> startDate,
               endDate |-> endDate]
  /\ ret = NoCall

CallGenerateAvailableSlots ==
  /\ args.op = "slots" /\ ret = NoCall
  /\ ret' = [op |-> "generateAvailableSlots",
             slots |-> generateAvailableSlots(args.eventTypeId, args.startDate,
                                              args.endDate, now, calendar, bookings, TRUE)]
  /\ UNCHANGED << appVars, args, accounts, client, provider, granted >>

CallIsSlotAvailable ==
  /\ args.op = "slots" /\ ret = NoCall
  /\ \E startTime \in Starts :
       LET endTime == addMinutes(startTime, EventTypes[args.eventTypeId].duration) IN
       ret' = [op |-> "isSlotAvailable", startTime |-> startTime,
               available |-> isSlotAvailable(args.eventTypeId, startTime, endTime,
                                             now, calendar, bookings, TRUE)]
  /\ UNCHANGED << appVars, args, accounts, client, provider, granted >>

\* timezones a guest may ask the slots in
GuestTimezones == {"UTC", "America/New_York", "Asia/Tokyo"}

\* a key that is the date of the slot in UTC
dateKeyUtc(slot, timezone) == formatDate(slot.start)

\* format(toZonedTime(slot.start, timezone), 'yyyy-MM-dd')
dateKey(slot, timezone) == formatDate(toZonedTime(slot.start, timezone))

\* the for loop of getSlotsGroupedByDate over slots[i..]
RECURSIVE groupLoop(_, _, _, _)
groupLoop(slots, i, timezone, grouped) ==
  IF i > Len(slots) THEN grouped
  ELSE LET key == dateKey(slots[i], timezone)
           created == IF key \in DOMAIN grouped THEN grouped
                      ELSE [k \in DOMAIN grouped \cup {key} |->
                              IF k = key THEN << >> ELSE grouped[k]]
       IN groupLoop(slots, i + 1, timezone,
                    [created EXCEPT ![key] = Append(@, slots[i])])

getSlotsGroupedByDate(eventTypeId, startDate, endDate, timezone, nowv, events, table) ==
  groupLoop(generateAvailableSlots(eventTypeId, startDate, endDate, nowv, events, table, TRUE),
            1, timezone, << >>)

CallGetSlotsGroupedByDate ==
  /\ args.op = "slots" /\ ret = NoCall
  /\ \E timezone \in GuestTimezones :
       ret' = [op |-> "getSlotsGroupedByDate", timezone |-> timezone,
               grouped |-> getSlotsGroupedByDate(args.eventTypeId, args.startDate,
                             args.endDate, timezone, now, calendar, bookings)]
  /\ UNCHANGED << appVars, args, accounts, client, provider, granted >>

NextSlots ==
  \/ CallGenerateAvailableSlots
  \/ CallIsSlotAvailable
  \/ CallGetSlotsGroupedByDate

SpecSlots == InitSlots /\ [][NextSlots]_vars

-----------------------------------------------------------------------------
(* lib/google-calendar.ts: getCompositeBusy over the connected accounts *)

AccountIds == {"acc1", "acc2"}

SKEW_MS == 60000
DEFAULT_EXPIRY_MS == 3600000

\* busy blocks the provider reports for the selected calendars of an account
AccountBusy ==
  [a \in AccountIds |->
     IF a = "acc1" THEN {[start |-> T1400, end |-> T1430, calendarId |-> "cal1"]}
     ELSE {[start |-> T1430, end |-> T1430 + Min(15), calendarId |-> "cal2"]}]

\* access tokens are numbered in the order the provider issues them
AccountRow(email, isValid, expiresAt, accessToken) ==
  [userId |-> "admin1", email |-> email, isValid |-> isValid, expiresAt |-> expiresAt,
   accessToken |-> accessToken]

\* acc1 holds a token within the skew of its expiry; acc2 holds one that is
\* fresh or within the skew, or was marked invalid by an earlier failure
InitAccounts ==
  /\ now = Now0
  /\ bookings = << >> /\ calendar = {}
  /\ rateLimitStore = << >>
  /\ mail = [m \in Templates \X Uids |-> 0]
  /\ req = [p \in Procs |-> Idle]
  /\ sent = 0 /\ envEvents = 0
  /\ args = NoCall /\ ret = NoCall
  /\ \E expiresAt2 \in {Now0 + 30000, Now0 + DEFAULT_EXPIRY_MS}, isValid2 \in BOOLEAN :
       accounts = [a \in AccountIds |->
                     IF a = "acc1" THEN AccountRow("a1@example.com", TRUE, Now0 + 30000, 0)
                     ELSE AccountRow("a2@example.com", isValid2, expiresAt2, 0)]
  /\ client = [p \in Procs |-> NoCall]
  /\ provider = [a \in AccountIds |-> [calls |-> 0, issued |-> 0, consents |-> 0]]
  /\ granted = << >>

\* prisma.calendar.findMany: the selected calendars of the valid accounts,
\* grouped by account
CompositeStart(p) ==
  /\ client[p].op \in {"none", "returned"}
  /\ sent < MaxRequests
  /\ sent' = sent + 1
  /\ client' = [client EXCEPT ![p] =
       [op |-> "getCompositeBusy",
        accs |-> { a \in AccountIds : accounts[a].isValid },
        excluded |-> { a \in AccountIds : ~accounts[a].isValid },
        st |-> [a \in AccountIds |->
                  [pc |-> IF accounts[a].isValid THEN "read" ELSE "skip", token |-> 0]],
        blocks |-> {}]]
  /\ UNCHANGED << now, bookings, calendar, rateLimitStore, mail, req, envEvents,
                  args, ret, accounts, provider, granted >>

\* getAuthenticatedClient: the row is read and the expiry compared
AuthRead(p, a) ==
  /\ client[p].op = "getCompositeBusy" /\ client[p].st[a].pc = "read"
  /\ client' = [client EXCEPT ![p].st[a] =
       [pc |-> IF accounts[a].expiresAt < now + SKEW_MS THEN "refresh" ELSE "query",
        token |-> accounts[a].accessToken]]
  /\ UNCHANGED << appVars, args, ret, accounts, provider, granted >>

\* oauth2Client.refreshAccessToken(): the provider issues a token or refuses
RefreshCall(p, a) ==
  /\ client[p].op = "getCompositeBusy" /\ client[p].st[a].pc = "refresh"
  /\ \E ok \in Outcomes :
       /\ envEvents' = envEvents + Cost(ok)
       /\ provider' = [provider EXCEPT ![a].calls = @ + 1,
                                       ![a].issued = IF ok THEN @ + 1 ELSE @]
       /\ client' = [client EXCEPT ![p].st[a] =
            IF ok THEN [pc |-> "store", token |-> provider[a].issued + 1]
            ELSE [pc |-> "failed", token |-> client[p].st[a].token]]
  /\ UNCHANGED << now, bookings, calendar, rateLimitStore, mail, req, sent,
                  args, ret, accounts, granted >>

\* prisma.connectedAccount.update with the refreshed token and its expiry
StoreToken(p, a) ==
  /\ client[p].op = "getCompositeBusy" /\ client[p].st[a].pc = "store"
  /\ accounts' = [accounts EXCEPT ![a].accessToken = client[p].st[a].token,
                                  ![a].expiresAt = now + DEFAULT_EXPIRY_MS]
  /\ client' = [client EXCEPT ![p].st[a].pc = "query"]
  /\ UNCHANGED << appVars, args, ret, provider, granted >>

\* the row of an account left as it is
leaveValid(row) == row

\* catch of the refresh: data: { isValid: false }
markInvalid(row) == [row EXCEPT !.isValid = FALSE]

\* a rejected getFreeBusy that is not caught: Promise.all rejects
rethrowFetchError(c, a) == [c EXCEPT !.op = "thrown"]

\* getFreeBusy(...).catch: the account yields no blocks
catchFetchError(c, a) == [c EXCEPT !.st[a].pc = "empty"]

\* the refresh failed: the account is marked invalid and getFreeBusy rejects
MarkInvalid(p, a) ==
  /\ client[p].op = "getCompositeBusy" /\ client[p].st[a].pc = "failed"
  /\ accounts' = [accounts EXCEPT ![a] = markInvalid(accounts[a])]
  /\ client' = [client EXCEPT ![p] = catchFetchError(client[p], a)]
  /\ UNCHANGED << appVars, args, ret, provider, granted >>

\* calendar.freebusy.query with the client's token: blocks or an error
Query(p, a) ==
  /\ client[p].op = "getCompositeBusy" /\ client[p].st[a].pc = "query"
  /\ \E ok \in Outcomes :
       /\ envEvents' = envEvents + Cost(ok)
       /\ client' = [client EXCEPT ![p] =
            IF ok THEN [client[p] EXCEPT !.st[a].pc = "done",
                                         !.blocks = @ \cup AccountBusy[a]]
            ELSE catchFetchError(client[p], a)]
  /\ UNCHANGED << now, bookings, calendar, rateLimitStore, mail, req, sent,
                  args, ret, accounts, provider, granted >>

\* Promise.all resolves: results.flat()
CompositeReturn(p) ==
  /\ client[p].op = "getCompositeBusy"
  /\ \A a \in AccountIds : client[p].st[a].pc \in {"skip", "done", "empty"}
  /\ client' = [client EXCEPT ![p].op = "returned"]
  /\ UNCHANGED << appVars, args, ret, accounts, provider, granted >>

\* saveConnectedAccount after the OAuth callback: upsert by (userId, email)
Reconsent(a) ==
  /\ sent < MaxRequests
  /\ sent' = sent + 1
  /\ provider' = [provider EXCEPT ![a].issued = @ + 1, ![a].consents = @ + 1]
  /\ accounts' = [accounts EXCEPT ![a].accessToken = provider[a].issued + 1,
                                  ![a].expiresAt = now + DEFAULT_EXPIRY_MS,
                                  ![a].isValid = TRUE]
  /\ UNCHANGED << now, bookings, calendar, rateLimitStore, mail, req, envEvents,
                  args, ret, client, granted >>

NextAccounts ==
  \/ \E p \in Procs : CompositeStart(p)
  \/ \E p \in Procs, a \in AccountIds : AuthRead(p, a)
  \/ \E p \in Procs, a \in AccountIds : RefreshCall(p, a)
  \/ \E p \in Procs, a \in AccountIds : StoreToken(p, a)
  \/ \E p \in Procs, a \in AccountIds : MarkInvalid(p, a)
  \/ \E p \in Procs, a \in AccountIds : Query(p, a)
  \/ \E p \in Procs : CompositeReturn(p)
  \/ \E a \in AccountIds : Reconsent(a)

SpecAccounts == InitAccounts /\ [][NextAccounts]_vars

-----------------------------------------------------------------------------
(* lib/rate-limit.ts: the limiter called for several keys *)

AVAILABILITY_MAX == 30
OAUTH_MAX == 5

LimiterKeys == {"booking:ip1", "booking:ip2", "availability:ip1", "oauth:u1"}

\* RATE_LIMITS of the endpoint class a key belongs to
RATE_LIMITS(key) ==
  [maxRequests |-> IF key \in {"booking:ip1", "booking:ip2"} THEN BOOKING_MAX
                   ELSE IF key = "availability:ip1" THEN AVAILABILITY_MAX
                   ELSE OAUTH_MAX,
   windowMs |-> WINDOW_MS]

\* a client goes on calling until it has been refused this many times in a window
MaxOver == 1

\* the last instant of the run: the instant at which a window opened at the
\* start expires
LastClock == Now0 + WINDOW_MS

NoWindow == [since |-> 0, n |-> 0, open |-> FALSE, from |-> 0, calls |-> 0]

\* a run exercises two of the keys
InitLimiter ==
  /\ now = Now0
  /\ bookings = << >> /\ calendar = {}
  /\ rateLimitStore = << >>
  /\ mail = [m \in Templates \X Uids |-> 0]
  /\ req = [p \in Procs |-> Idle]
  /\ sent = 0 /\ envEvents = 0
  /\ \E k1 \in LimiterKeys, k2 \in LimiterKeys :
       /\ k1 # k2
       /\ args = [op |-> "limiter", keys |-> {k1, k2}]
  /\ ret = NoCall
  /\ accounts = << >>
  /\ client = [p \in Procs |-> NoCall]
  /\ provider = << >>
  /\ granted = [k \in LimiterKeys |-> NoWindow]

\* one call of rateLimit; granted counts the allowed calls since rateLimit
\* last opened a window for the key, and, by the clock alone, the calls since
\* the first call of the key that came windowMs or more after the one before
CallRateLimit(key) ==
  /\ args.op = "limiter" /\ key \in args.keys
  /\ (key \in DOMAIN rateLimitStore /\ rateLimitStore[key].resetAt > now)
       => rateLimitStore[key].count < RATE_LIMITS(key).maxRequests + MaxOver
  /\ LET rl == rateLimit(rateLimitStore, key, RATE_LIMITS(key).maxRequests,
                         RATE_LIMITS(key).windowMs, now)
         opened == IF key \in DOMAIN rateLimitStore
                   THEN rl.store[key].resetAt # rateLimitStore[key].resetAt ELSE TRUE
         first == ~granted[key].open
                    \/ now >= granted[key].from + RATE_LIMITS(key).windowMs
     IN /\ rateLimitStore' = rl.store
        /\ ret' = [op |-> "rateLimit", key |-> key, success |-> rl.success,
                   remaining |-> rl.remaining, resetAt |-> rl.resetAt]
        /\ granted' = [granted EXCEPT ![key] =
              [since |-> IF opened THEN now ELSE @.since,
               n |-> (IF opened THEN 0 ELSE @.n) + (IF rl.success THEN 1 ELSE 0),
               open |-> TRUE,
               from |-> IF first THEN now ELSE @.from,
               calls |-> IF first THEN 1 ELSE @.calls + 1]]
  /\ UNCHANGED << now, bookings, calendar, mail, req, sent, envEvents,
                  args, accounts, client, provider >>

\* half a window passes
LimiterTick ==
  /\ args.op = "limiter" /\ now < LastClock
  /\ now' = now + (WINDOW_MS \div 2)
  /\ UNCHANGED << bookings, calendar, rateLimitStore, mail, req, sent, envEvents >>
  /\ UNCHANGED libVars

NextLimiter ==
  \/ \E key \in LimiterKeys : CallRateLimit(key)
  \/ LimiterTick

SpecLimiter == InitLimiter /\ [][NextLimiter]_vars

-----------------------------------------------------------------------------
(* DELETE /api/bookings/[uid], with the caller of each request fixed *)

\* Booking0 is stored, CONFIRMED or PENDING, with its calendar event and the
\* emails of its creation
InitDelete ==
  /\ now = Now0
  /\ \E status \in Active, caller \in [Procs -> Callers] :
       /\ bookings = << [Booking0 EXCEPT !.status = status] >>
       /\ args = [op |-> "DELETE", caller |-> caller, status |-> status]
  /\ calendar = {[id |-> 1, start |-> T1400, end |-> T1430]}
  /\ rateLimitStore = << >>
  /\ mail = [m \in Templates \X Uids |->
               IF m[2] = 1 /\ m[1] # "cancellation" THEN 1 ELSE 0]
  /\ req = [p \in Procs |-> Idle]
  /\ sent = 0 /\ envEvents = 0
  /\ ret = NoCall
  /\ accounts = << >>
  /\ client = [p \in Procs |-> NoCall]
  /\ provider = << >>
  /\ granted = << >>

NextDelete ==
  \/ \E p \in Procs : DeleteStart(p)
  \/ \E p \in Procs : DeleteUpdate(p)
  \/ \E p \in Procs : DeleteCleanup(p)
  \/ \E p \in Procs : PostStart(p)
  \/ \E p \in Procs : PostLookup(p)

SpecDelete == InitDelete /\ [][NextDelete]_vars

-----------------------------------------------------------------------------
(* POST /api/bookings and GET /api/availability while event types are
   deactivated *)

AvailabilityKey == "availability:ip1"

\* the query parameters of a GET /api/availability
GetQueries ==
  { [valid |-> TRUE, eventTypeId |-> "et1"],
    [valid |-> TRUE, eventTypeId |-> "et0"],
    [valid |-> FALSE, eventTypeId |-> "et1"] }

\* both event types active or et1 already inactive; Booking0 may be stored;
\* the windows of the client fresh, or one of them used up
InitEventTypes ==
  /\ now = Now0
  /\ \/ bookings = << >> /\ calendar = {}
     \/ bookings = << Booking0 >> /\ calendar = {[id |-> 1, start |-> T1400, end |-> T1430]}
  /\ rateLimitStore \in
       { << >>,
         [k \in {AvailabilityKey} |->
            [count |-> AVAILABILITY_MAX, resetAt |-> Now0 + WINDOW_MS]],
         [k \in {RateKey} |-> [count |-> BOOKING_MAX, resetAt |-> Now0 + WINDOW_MS]] }
  /\ mail = [m \in Templates \X Uids |-> 0]
  /\ req = [p \in Procs |-> Idle]
  /\ sent = 0 /\ envEvents = 0
  /\ \E active \in {EventTypeIds, EventTypeIds \ {"et1"}} :
       args = [op |-> "eventTypes", active |-> active]
  /\ ret = NoCall
  /\ accounts = << >>
  /\ client = [p \in Procs |-> NoCall]
  /\ provider = << >>
  /\ granted = << >>

\* a GET /api/availability arrives: rate limit, validation, the event type
GetStart(p) ==
  /\ Free(p)
  /\ sent < MaxRequests
  /\ sent' = sent + 1
  /\ \E query \in GetQueries :
       LET rl == rateLimit(rateLimitStore, AvailabilityKey, AVAILABILITY_MAX, WINDOW_MS, now)
           r == [Idle EXCEPT !.op = "GET", !.pc = "arrive", !.valid = query.valid,
                             !.eventTypeId = query.eventTypeId]
       IN /\ rateLimitStore' = rl.store
          /\ req' = [req EXCEPT ![p] =
                IF ~rl.success THEN TooManyRequests(r, rl)
                ELSE IF ~safeParse(query) THEN Fail(r, 400)
                ELSE IF ~usable(query.eventTypeId) THEN Fail([r EXCEPT !.pc = "lookup"], 404)
                ELSE [r EXCEPT !.pc = "slots"]]
  /\ UNCHANGED << now, bookings, calendar, mail, envEvents >>
  /\ UNCHANGED libVars

\* getSlotsGroupedByDate is called and the slots are returned
GetSlots(p) ==
  /\ req[p].op = "GET" /\ req[p].pc = "slots"
  /\ ret' = [op |-> "getSlotsGroupedByDate", eventTypeId |-> req[p].eventTypeId,
             slots |-> generateAvailableSlots(req[p].eventTypeId, 0, DayMs, now,
                                              calendar, bookings, TRUE)]
  /\ req' = [req EXCEPT ![p] = Respond(req[p], 200, 0, 0, 0, 0)]
  /\ UNCHANGED << now, bookings, calendar, rateLimitStore, mail, sent, envEvents,
                  args, accounts, client, provider, granted >>

\* the row of an event type gets isActive = false
Deactivate(e) ==
  /\ args.op = "eventTypes" /\ e \in args.active
  /\ args' = [args EXCEPT !.active = @ \ {e}]
  /\ UNCHANGED << appVars, ret, accounts, client, provider, granted >>

NextEventTypes ==
  \/ \E p \in Procs : PostStart(p)
  \/ \E p \in Procs : PostLookup(p)
  \/ \E p \in Procs : Avail1(p)
  \/ \E p \in Procs : Avail2(p)
  \/ \E p \in Procs : PostInsert(p)
  \/ \E p \in Procs : PostCalendar(p)
  \/ \E p \in Procs : PostUpdate(p)
  \/ \E p \in Procs : PostEmail(p)
  \/ \E p \in Procs : GetStart(p)
  \/ \E p \in Procs : GetSlots(p)
  \/ \E e \in EventTypeIds : Deactivate(e)

SpecEventTypes == InitEventTypes /\ [][NextEventTypes]_vars

-----------------------------------------------------------------------------
(* POST /api/event-types and PUT /api/event-types/[id]: the calendars of an
   event type *)

\* the Calendar table: three calendars of the host, one of them read-only,
\* and a calendar of another user
CalendarRows ==
  [c \in {"c1", "c2", "c3", "c4"} |->
     [id |-> c, userId |-> IF c = "c4" THEN "admin2" ELSE "admin1",
      isWritable |-> (c # "c3")]]

\* calendarIds (at least one) and destinationCalendarId of a body that
\* passes eventTypeSchema; "c9" is the id of no calendar
FormBodies ==
  { [calendarIds |-> ids, destinationCalendarId |-> dest] :
      ids \in (SUBSET DOMAIN CalendarRows) \ {{}}, dest \in DOMAIN CalendarRows \cup {"c9"} }

InitForm ==
  /\ now = Now0
  /\ bookings = << >> /\ calendar = {}
  /\ rateLimitStore = << >>
  /\ mail = [m \in Templates \X Uids |-> 0]
  /\ req = [p \in Procs |-> Idle]
  /\ sent = 0 /\ envEvents = 0
  /\ accounts = << >>
  /\ client = [p \in Procs |-> NoCall]
  /\ provider = << >>
  /\ granted = << >>
  /\ \E body \in FormBodies, session \in {"admin1", NoValue} :
       args = [op |-> "form", body |-> body, session |-> session]
  /\ ret = NoCall

\* the handler from the session check to the response, for POST (201) and
\* PUT (200): the calendars are looked up among those of the session user, the
\* destination must be writable, one association is created per calendarId
saveEventType(session, body, created) ==
  LET wanted == body.calendarIds \cup {body.destinationCalendarId}
      calendars == { c \in DOMAIN CalendarRows :
                       CalendarRows[c].userId = session /\ c \in wanted }
  IN IF session = NoValue THEN [status |-> 401, calendars |-> {}]
     ELSE IF Cardinality(calendars) # Cardinality(wanted) THEN [status |-> 400, calendars |-> {}]
     ELSE IF ~CalendarRows[body.destinationCalendarId].isWritable
     THEN [status |-> 400, calendars |-> {}]
     ELSE [status |-> created,
           calendars |-> { [calendarId |-> c,
                            isDestination |-> (c = body.destinationCalendarId)] :
                           c \in body.calendarIds }]

\* POST /api/event-types
CreateEventType ==
  /\ args.op = "form" /\ ret = NoCall
  /\ ret' = [op |-> "POST /api/event-types",
             eventType |-> saveEventType(args.session, args.body, 201)]
  /\ UNCHANGED << appVars, args, accounts, client, provider, granted >>

\* PUT /api/event-types/[id] for an event type of the session user
UpdateEventType ==
  /\ args.op = "form" /\ ret = NoCall
  /\ ret' = [op |-> "PUT /api/event-types/[id]",
             eventType |-> saveEventType(args.session, args.body, 200)]
  /\ UNCHANGED << appVars, args, accounts, client, provider, granted >>

\* POST /api/bookings for the saved event type reaches the destination
\* calendar: eventType.calendars where isDestination, first element
DestinationLookup ==
  /\ ret.op \in {"POST /api/event-types", "PUT /api/event-types/[id]"}
  /\ ret.eventType.status \in {200, 201}
  /\ ret' = [op |-> "POST /api/bookings",
             eventType |-> [status |-> IF \E a \in ret.eventType.calendars : a.isDestination
                                       THEN 201 ELSE 500,
                            calendars |-> ret.eventType.calendars]]
  /\ UNCHANGED << appVars, args, accounts, client, provider, granted >>

NextForm ==
  \/ CreateEventType
  \/ UpdateEventType
  \/ DestinationLookup

SpecForm == InitForm /\ [][NextForm]_vars

-----------------------------------------------------------------------------
(* POST /api/calendars while availability is computed *)

\* accounts holds the Calendar rows of the host, all on valid accounts; args
\* the selection before the request and the calendarIds of its body
InitSelection ==
  /\ now = Now0
  /\ bookings = << >> /\ calendar = {}
  /\ rateLimitStore = << >>
  /\ mail = [m \in Templates \X Uids |-> 0]
  /\ req = [p \in Procs |-> Idle]
  /\ sent = 0 /\ envEvents = 0
  /\ \E before \in SUBSET CalendarIds, calendarIds \in SUBSET CalendarIds :
       /\ args = [op |-> "selection", before |-> before, calendarIds |-> calendarIds]
       /\ accounts = [c \in CalendarIds |-> [isSelected |-> (c \in before)]]
  /\ ret = NoCall
  /\ client = [p \in Procs |-> NoCall]
  /\ provider = << >>
  /\ granted = << >>

\* POST /api/calendars by the host: session and body are accepted
SelectionStart(p) ==
  /\ args.op = "selection"
  /\ client[p].op \in {"none", "returned"}
  /\ sent < MaxRequests
  /\ sent' = sent + 1
  /\ client' = [client EXCEPT ![p] = [op |-> "POST /api/calendars", pc |-> "deselect"]]
  /\ UNCHANGED << now, bookings, calendar, rateLimitStore, mail, req, envEvents,
                  args, ret, accounts, provider, granted >>

\* updateMany: isSelected = false for every calendar of the host
DeselectAll(p) ==
  /\ client[p].op = "POST /api/calendars" /\ client[p].pc = "deselect"
  /\ accounts' = [c \in CalendarIds |-> [accounts[c] EXCEPT !.isSelected = FALSE]]
  /\ client' = [client EXCEPT ![p] =
       IF args.calendarIds # {} THEN [@ EXCEPT !.pc = "select"]
       ELSE [op |-> "returned", status |-> 200, calendars |-> {}]]
  /\ UNCHANGED << appVars, args, ret, provider, granted >>

\* updateMany: isSelected = true for the calendars of the body; then the 200
SelectIds(p) ==
  /\ client[p].op = "POST /api/calendars" /\ client[p].pc = "select"
  /\ accounts' = [c \in CalendarIds |->
                    IF c \in args.calendarIds THEN [accounts[c] EXCEPT !.isSelected = TRUE]
                    ELSE accounts[c]]
  /\ client' = [client EXCEPT ![p] = [op |-> "returned", status |-> 200, calendars |-> {}]]
  /\ UNCHANGED << appVars, args, ret, provider, granted >>

\* getCompositeBusy: prisma.calendar.findMany of the selected calendars, whose
\* busy blocks it goes on to fetch
SelectedCalendars(p) ==
  /\ args.op = "selection"
  /\ client[p].op \in {"none", "returned"}
  /\ client' = [client EXCEPT ![p] =
       [op |-> "returned", status |-> 0,
        calendars |-> { c \in CalendarIds : accounts[c].isSelected }]]
  /\ ret' = [op |-> "getCompositeBusy",
             calendars |-> { c \in CalendarIds : accounts[c].isSelected }]
  /\ UNCHANGED << appVars, args, accounts, provider, granted >>

NextSelection ==
  \/ \E p \in Procs : SelectionStart(p)
  \/ \E p \in Procs : DeselectAll(p)
  \/ \E p \in Procs : SelectIds(p)
  \/ \E p \in Procs : SelectedCalendars(p)

SpecSelection == InitSelection /\ [][NextSelection]_vars

-----------------------------------------------------------------------------
(* Properties *)

Rows == 1..Len(bookings)

\* half-open intervals [s1, e1) and [s2, e2) share an instant
Overlap(s1, e1, s2, e2) == s1 < e2 /\ s2 < e1

PostDone(p) == req[p].op = "POST" /\ req[p].pc = "done"

\* C1: any two distinct CONFIRMED bookings of the same host have disjoint
\* half-open intervals [start, end).
C1_NoDoubleConfirmation ==
  \A i \in Rows, j \in Rows :
    (/\ i # j
     /\ bookings[i].userId = bookings[j].userId
     /\ bookings[i].status = "CONFIRMED"
     /\ bookings[j].status = "CONFIRMED")
    => ~Overlap(bookings[i].startTime, bookings[i].endTime,
                bookings[j].startTime, bookings[j].endTime)

\* the slot of request p is bookable but for the bookings and calendar events
\* that p and q themselves made
BookableButFor(p, q) ==
  LET r == req[p]
      config == getEventTypeConfig(r.eventTypeId)
      endTime == addMinutes(r.startTime, config.duration)
      own == {req[p].uid, req[q].uid} \ {0}
      lo == addMinutes(r.startTime, 0 - config.bufferBefore)
      hi == addMinutes(endTime, config.bufferAfter)
  IN /\ withinConstraints(config, r.startTime, endTime, now)
     /\ \A i \in Rows :
          (bookings[i].uid \notin own /\ bookings[i].userId = config.userId)
          => ~Overlap(bookings[i].startTime, bookings[i].endTime, r.startTime, endTime)
     /\ \A ev \in (calendar \cup {ForeignEvent}) :
          ev.id \notin own => ~Overlap(ev.start, ev.end, lo, hi)

\* p and q are the two requests of the behaviour, both answered: POSTs that
\* passed the limiter and the schema, for the same event type and start, with
\* distinct idempotency keys, against a bookable slot
TwoPostsSameSlot(p, q) ==
  /\ p # q
  /\ sent = 2
  /\ PostDone(p) /\ PostDone(q)
  /\ req[p].resp.at # "arrive" /\ req[q].resp.at # "arrive"
  /\ req[p].eventTypeId = req[q].eventTypeId
  /\ req[p].startTime = req[q].startTime
  /\ req[p].key # req[q].key
  /\ BookableButFor(p, q)

\* C2: of two POST /bookings for the same eventTypeId and startTime with
\* distinct idempotency keys against a bookable slot, exactly one returns 201
\* and the other 409, and exactly one non-cancelled row holds the slot, in
\* every interleaving of their steps.
C2_FirstWriteWins ==
  \A p \in Procs, q \in Procs :
    TwoPostsSameSlot(p, q) =>
      /\ \/ (req[p].resp.status = 201 /\ req[q].resp.status = 409)
         \/ (req[p].resp.status = 409 /\ req[q].resp.status = 201)
      /\ Cardinality({ i \in Rows :
            /\ bookings[i].status # "CANCELLED"
            /\ bookings[i].userId = EventTypes[req[p].eventTypeId].userId
            /\ bookings[i].startTime = req[p].startTime
            /\ bookings[i].endTime = req[p].endTime }) = 1

\* both requests passed the pre-commit check and the second insert was
\* rejected by the unique index
C2_Witness ==
  \E p \in Procs, q \in Procs :
    /\ TwoPostsSameSlot(p, q)
    /\ req[p].resp.status = 201
    /\ req[q].resp.status = 409 /\ req[q].resp.at = "insert"

\* C3: submitting the same booking request with the same idempotency key
\* any number of times, sequentially or concurrently, yields the same
\* booking uid in every response and leaves at most one row with that key.
C3_SameKeySameBooking ==
  \A p \in Procs, q \in Procs :
    (/\ p # q
     /\ PostDone(p) /\ PostDone(q)
     /\ req[p].resp.at # "arrive" /\ req[q].resp.at # "arrive"
     /\ req[p].eventTypeId = req[q].eventTypeId
     /\ req[p].startTime = req[q].startTime
     /\ req[p].key = req[q].key)
    => /\ req[p].resp.status \in {200, 201}
          => (req[q].resp.status \in {200, 201} /\ req[q].resp.uid = req[p].resp.uid)
       /\ Cardinality({ i \in Rows : bookings[i].idempotencyKey = req[p].key }) <= 1

\* the slot [startTime, endTime) of an event type is bookable at clock nowv
\* with calendar events and Booking table as given: inside the working hours
\* of its host-local day, inside notice and window, overlapping no
\* non-cancelled booking of the host and, with buffers, no busy block
Bookable(eventTypeId, startTime, endTime, nowv, events, table) ==
  LET config == getEventTypeConfig(eventTypeId)
      localStart == toZonedTime(startTime, config.timezone)
      localEnd == toZonedTime(endTime, config.timezone)
      found == findDay(config.workingHours, getDay(localStart), 1)
      hours == config.workingHours[found]
  IN /\ found # 0
     /\ setHoursMinutes(localStart, hours.start[1], hours.start[2]) <= localStart
     /\ localEnd <= setHoursMinutes(localStart, hours.end[1], hours.end[2])
     /\ startTime >= addMinutes(nowv, config.minimumNotice)
     /\ startTime <= addDays(nowv, config.schedulingWindow)
     /\ \A i \in 1..Len(table) :
          (table[i].userId = config.userId /\ table[i].status # "CANCELLED")
          => ~Overlap(table[i].startTime, table[i].endTime, startTime, endTime)
     /\ \A ev \in events :
          ~Overlap(ev.start, ev.end, addMinutes(startTime, 0 - config.bufferBefore),
                   addMinutes(endTime, config.bufferAfter))

\* C4: every booking row created by POST /bookings is, at the moment of its
\* insert, for a slot bookable in the clock, calendar and table of that moment.
C4_BookableWhenDurable ==
  [][ Len(bookings') > Len(bookings) =>
        LET b == bookings'[Len(bookings')] IN
        Bookable(b.eventTypeId, b.startTime, b.endTime, now, calendar, bookings) ]_vars

\* requested ranges of GET /availability: day 0, whole or from 14:15Z
RangeStarts == {0, T1415}
RangeEnd == DayMs

SlotsOf(seq) == { seq[i] : i \in 1..Len(seq) }

\* C5: every slot returned by generateAvailableSlots at clock T passes
\* isSlotAvailable at the same clock, table and external busy blocks.
C5_ListedSlotsPassCheck ==
  \A e \in EventTypeIds, startDate \in RangeStarts :
    \A slot \in SlotsOf(generateAvailableSlots(e, startDate, RangeEnd, now, calendar,
                                                bookings, TRUE)) :
      isSlotAvailable(e, slot.start, slot.end, now, calendar, bookings, TRUE)

\* C6: generateAvailableSlots returns no slot whose buffer-expanded interval
\* overlaps a CONFIRMED or PENDING booking of the host that overlaps the
\* effective window.
C6_ListedSlotsClearOfBookings ==
  \A e \in EventTypeIds, startDate \in RangeStarts :
    LET config == getEventTypeConfig(e)
        effectiveStart == Max2(startDate, addMinutes(now, config.minimumNotice))
        effectiveEnd == Min2(RangeEnd, addDays(now, config.schedulingWindow))
    IN \A slot \in SlotsOf(generateAvailableSlots(e, startDate, RangeEnd, now, calendar,
                                                   bookings, TRUE)) :
         \A i \in Rows :
           (/\ bookings[i].userId = config.userId
            /\ bookings[i].status \in Active
            /\ Overlap(bookings[i].startTime, bookings[i].endTime,
                       effectiveStart, effectiveEnd))
           => ~Overlap(bookings[i].startTime, bookings[i].endTime,
                       addMinutes(slot.start, 0 - config.bufferBefore),
                       addMinutes(slot.end, config.bufferAfter))

\* a row of the table is CANCELLED and holds the slot of booking b
CancelledHolds(b) ==
  \E i \in Rows : bookings[i].status = "CANCELLED" /\ slotKey(bookings[i]) = slotKey(b)

\* C7: once a booking is cancelled, the availability call offers its slot
\* again and a new POST for the same host, event type, start and end is
\* inserted (and so answered 201), given that nothing else covers the slot:
\* the cancelled row blocks neither the check nor the unique index.
C7_CancelledSlotIsReleased ==
  [][ /\ \A i \in Rows :
           (/\ bookings[i].status = "CANCELLED"
            /\ Bookable(bookings[i].eventTypeId, bookings[i].startTime,
                        bookings[i].endTime, now, calendar, bookings))
           => [start |-> bookings[i].startTime, end |-> bookings[i].endTime] \in
                SlotsOf(generateAvailableSlots(bookings[i].eventTypeId, 0, RangeEnd, now,
                                               calendar, bookings, TRUE))
      /\ \A p \in Procs :
           (/\ req[p].op = "POST" /\ req[p].pc = "insert" /\ req'[p] # req[p]
            /\ CancelledHolds(newBooking(bookings, req[p]))
            /\ findByKey(bookings, req[p].key) = 0
            /\ Bookable(req[p].eventTypeId, req[p].startTime, req[p].endTime,
                        now, calendar, bookings))
           => /\ req'[p].pc = "calendar"
              /\ Len(bookings') = Len(bookings) + 1 ]_vars

Collides(p) ==
  \E i \in Rows :
    /\ i # req[p].uid
    /\ bookings[i].userId = bookings[req[p].uid].userId
    /\ bookings[i].status # "CANCELLED"
    /\ Overlap(bookings[i].startTime, bookings[i].endTime, req[p].startTime, req[p].endTime)

NoSharedSlot ==
  \A i \in Rows, j \in Rows :
    (/\ i # j
     /\ bookings[i].userId = bookings[j].userId
     /\ bookings[i].status # "CANCELLED"
     /\ bookings[j].status # "CANCELLED")
    => << bookings[i].startTime, bookings[i].endTime >>
         # << bookings[j].startTime, bookings[j].endTime >>

\* C10: a PATCH whose new interval collides, at its update, with another
\* non-cancelled booking of the host is answered 409 and leaves the table as
\* it was; no two non-cancelled bookings of a host hold the same (start, end).
C10_RescheduleCollisionRefused ==
  [][ /\ \A p \in Procs :
           (/\ req[p].op = "PATCH" /\ req[p].pc = "patchUpdate" /\ req'[p] # req[p]
            /\ Collides(p))
           => /\ req'[p].pc = "done"
              /\ req'[p].resp.status = 409
              /\ bookings' = bookings
      /\ NoSharedSlot' ]_vars

\* the slot of the call, widened by its buffers
BufferedStart == args.slot.start - Min(args.bufferBefore)
BufferedEnd == args.slot.end + Min(args.bufferAfter)

\* C11: isSlotBusy is true if and only if some block B has
\* max(slot.start - bufferBefore, B.start) < min(slot.end + bufferAfter, B.end);
\* with zero buffers, blocks that share only an endpoint with the slot do not
\* make it busy.
C11_BusyIffBufferedOverlap ==
  ret.op = "isSlotBusy" =>
    /\ ret.busy <=>
         \E i \in 1..Len(args.blocks) :
           Max2(BufferedStart, args.blocks[i].start) < Min2(BufferedEnd, args.blocks[i].end)
    /\ (/\ args.bufferBefore = 0 /\ args.bufferAfter = 0
        /\ \A i \in 1..Len(args.blocks) :
             \/ args.blocks[i].end <= args.slot.start
             \/ args.blocks[i].start >= args.slot.end)
       => ~ret.busy

\* a slot with zero buffers between two blocks that touch it is not busy
C11_Witness ==
  /\ ret.op = "isSlotBusy" /\ ~ret.busy
  /\ args.bufferBefore = 0 /\ args.bufferAfter = 0
  /\ \E i \in 1..Len(args.blocks) : args.blocks[i].end = args.slot.start
  /\ \E i \in 1..Len(args.blocks) : args.blocks[i].start = args.slot.end

\* instant t lies in some interval [start, end) of the list
Covers(seq, t) == \E i \in 1..Len(seq) : seq[i].start <= t /\ t < seq[i].end

\* C12: mergeBusyBlocks returns intervals with start < end, sorted by start
\* ascending, pairwise disjoint and not adjacent, whose union is the union of
\* the input intervals.
C12_MergeCorrect ==
  ret.op = "mergeBusyBlocks" =>
    /\ \A i \in 1..Len(ret.merged) : ret.merged[i].start < ret.merged[i].end
    /\ \A i \in 1..(Len(ret.merged) - 1) : ret.merged[i].end < ret.merged[i + 1].start
    /\ \A t \in Instants : Covers(ret.merged, t) <=> Covers(args.blocks, t)

\* three blocks that only touch, given out of order, came out as one
C12_Witness ==
  /\ ret.op = "mergeBusyBlocks"
  /\ Len(args.blocks) = 3 /\ Len(ret.merged) = 1
  /\ args.blocks[1].start > args.blocks[2].start
  /\ \A i \in 1..3, j \in 1..3 :
       i # j => ~Overlap(args.blocks[i].start, args.blocks[i].end,
                         args.blocks[j].start, args.blocks[j].end)

\* C13: against the merged blocks of all calendars a slot is busy if and only
\* if its buffered interval overlaps a block of at least one calendar.
C13_BusyOnAnyCalendar ==
  ret.op = "composite" =>
    (ret.busy <=>
       \E c \in CalendarIds : \E i \in 1..Len(args.blocks) :
         /\ args.blocks[i].calendarId = c
         /\ Overlap(args.blocks[i].start, args.blocks[i].end, BufferedStart, BufferedEnd))

\* the slot is free on cal1 and busy on cal2, whose block was merged into an
\* earlier block of cal1
C13_Witness ==
  /\ ret.op = "composite" /\ ret.busy
  /\ Len(mergeBusyBlocks(args.blocks)) < Len(args.blocks)
  /\ \E i \in 1..Len(args.blocks) : args.blocks[i].calendarId = "cal1"
  /\ \A i \in 1..Len(args.blocks) :
       Overlap(args.blocks[i].start, args.blocks[i].end, BufferedStart, BufferedEnd)
       => /\ args.blocks[i].calendarId = "cal2"
          /\ \E j \in 1..Len(args.blocks) :
               /\ args.blocks[j].calendarId = "cal1"
               /\ args.blocks[j].start < args.blocks[i].start
               /\ args.blocks[j].end >= args.blocks[i].start

\* notice and window of the call under way, at the clock it reads
MinBookingTime == addMinutes(now, EventTypes[args.eventTypeId].minimumNotice)
MaxBookingDate == addDays(now, EventTypes[args.eventTypeId].schedulingWindow)

\* C14: no slot returned by generateAvailableSlots starts before
\* now + minimumNotice or after now + schedulingWindow days, and
\* isSlotAvailable returns false for every start outside that interval.
C14_NoticeAndWindow ==
  /\ ret.op = "generateAvailableSlots" =>
       \A slot \in SlotsOf(ret.slots) :
         slot.start >= MinBookingTime /\ slot.start <= MaxBookingDate
  /\ (/\ ret.op = "isSlotAvailable"
      /\ (ret.startTime < MinBookingTime \/ ret.startTime > MaxBookingDate))
     => ~ret.available

\* at Monday 14:10Z the Monday slots are inside the notice and of the Tuesday
\* slots only the one at 14:00Z is inside the window: it alone is returned
C14_Witness ==
  /\ ret.op = "generateAvailableSlots"
  /\ args.startDate = 0 /\ args.endDate = 2 * DayMs
  /\ T1430 < MinBookingTime
  /\ T1415 + DayMs > MaxBookingDate
  /\ SlotsOf(ret.slots) = { [start |-> T1400 + DayMs, end |-> T1430 + DayMs] }

\* C15: every slot returned by generateAvailableSlots(startDate, endDate)
\* starts inside the effective window
\* [max(startDate, now + minimumNotice), min(endDate, now + schedulingWindow)],
\* and an empty effective window yields no slots.
C15_InsideEffectiveWindow ==
  ret.op = "generateAvailableSlots" =>
    LET effectiveStart == Max2(args.startDate, MinBookingTime)
        effectiveEnd == Min2(args.endDate, MaxBookingDate)
    IN /\ \A slot \in SlotsOf(ret.slots) :
            slot.start >= effectiveStart /\ slot.start <= effectiveEnd
       /\ effectiveStart > effectiveEnd => ret.slots = << >>

\* C16: a getCompositeBusy call is never thrown out of; when it returns, an
\* account whose fetch failed contributes no block and every account whose
\* fetch succeeded contributes all of its blocks
C16_FailureStaysInItsAccount ==
  \A p \in Procs :
    /\ client[p].op # "thrown"
    /\ client[p].op = "returned" =>
         \A a \in client[p].accs :
           /\ client[p].st[a].pc = "empty" => client[p].blocks \cap AccountBusy[a] = {}
           /\ client[p].st[a].pc = "done" => AccountBusy[a] \subseteq client[p].blocks

\* a call returned with acc1 failed and the blocks of acc2
C16_Witness ==
  \E p \in Procs :
    /\ client[p].op = "returned"
    /\ client[p].accs = AccountIds
    /\ client[p].st["acc1"].pc = "empty"
    /\ client[p].blocks = AccountBusy["acc2"]

\* a call has started or has returned
InCall(c) == c.op \in {"getCompositeBusy", "returned"}

\* C17: the step that handles a failed refresh marks the account invalid; a
\* call that starts while an account is invalid leaves out its calendars and
\* returns none of its blocks; only a re-consent makes an invalid account
\* valid again
C17_InvalidUntilReconsent ==
  [][\A a \in AccountIds :
       /\ \A p \in Procs :
            (InCall(client[p]) /\ client[p].st[a].pc = "failed"
               /\ client'[p].st[a].pc # "failed") => ~accounts'[a].isValid
       /\ \A p \in Procs :
            (~accounts[a].isValid /\ client[p].op # "getCompositeBusy"
               /\ client'[p].op = "getCompositeBusy") =>
                 a \notin client'[p].accs /\ a \in client'[p].excluded
       /\ \A p \in Procs :
            (InCall(client'[p]) /\ a \in client'[p].excluded) =>
               client'[p].blocks \cap AccountBusy[a] = {}
       /\ (~accounts[a].isValid /\ accounts'[a].isValid) =>
            provider'[a].consents = provider[a].consents + 1
    ]_vars

\* the refresh of acc1 failed, and a later call returned the blocks of acc2
\* without the calendars of acc1
C17_Witness ==
  \E p \in Procs :
    /\ provider["acc1"].calls = 1 /\ provider["acc1"].issued = 0
    /\ ~accounts["acc1"].isValid
    /\ client[p].op = "returned"
    /\ "acc1" \in client[p].excluded
    /\ client[p].blocks = AccountBusy["acc2"]

\* C18: as long as an account has not been re-consented, a refresh call is
\* issued only while the stored token is within the skew of its expiry and no
\* other request has a refresh of the same account under way; the stored token
\* is never replaced by an older one; an account whose stored token is fresh is
\* never marked invalid
C18_RefreshIsCriticalSection ==
  [][\A a \in AccountIds : provider'[a].consents = 0 =>
       /\ provider'[a].calls > provider[a].calls =>
            /\ accounts[a].expiresAt < now + SKEW_MS
            /\ \A q \in Procs : InCall(client[q]) =>
                 client[q].st[a].pc \notin {"store", "failed"}
       /\ accounts'[a].accessToken >= accounts[a].accessToken
       /\ (accounts[a].isValid /\ ~accounts'[a].isValid) =>
            accounts[a].expiresAt < now + SKEW_MS
    ]_vars

\* the store with only the entry of one key
OnlyKey(store, key) == [k \in DOMAIN store \cap {key} |-> store[k]]

\* C19: in every window rateLimit opens for a key, at most the class limit of
\* calls are allowed (10 booking, 30 availability, 5 oauth); a window is
\* opened only when the key has none or the previous one is windowMs old, and
\* every call counted in a window falls less than windowMs after its opening;
\* a call changes no entry of another key, and its decision is the one the
\* limiter gives when the store holds the entry of its key alone
C19_AtMostMaxPerWindow ==
  [][\A key \in LimiterKeys :
       /\ granted'[key].n <= RATE_LIMITS(key).maxRequests
       /\ RATE_LIMITS(key).maxRequests =
            (CASE key \in {"booking:ip1", "booking:ip2"} -> 10
               [] key = "availability:ip1" -> 30
               [] key = "oauth:u1" -> 5)
       /\ RATE_LIMITS(key).windowMs = 60000
       /\ granted'[key] # granted[key] =>
            /\ now < granted'[key].since + RATE_LIMITS(key).windowMs
            /\ (granted[key].open /\ granted'[key].since # granted[key].since) =>
                 now >= granted[key].since + RATE_LIMITS(key).windowMs
            /\ \A other \in LimiterKeys \ {key} :
                 /\ OnlyKey(rateLimitStore', other) = OnlyKey(rateLimitStore, other)
                 /\ granted'[other] = granted[other]
            /\ ret'.success =
                 rateLimit(OnlyKey(rateLimitStore, key), key, RATE_LIMITS(key).maxRequests,
                           RATE_LIMITS(key).windowMs, now).success
    ]_vars

\* the 31st availability call of a window is refused after 30 were allowed,
\* while the booking key of the same client has an open window of its own
C19_Witness ==
  /\ ret.op = "rateLimit" /\ ret.key = "availability:ip1" /\ ~ret.success
  /\ granted["availability:ip1"].n = AVAILABILITY_MAX
  /\ granted["booking:ip1"].open /\ granted["booking:ip1"].n > 0
  /\ now > Now0

\* the caller is the host of the booking or its guest
HostOrGuest(caller, booking) ==
  \/ caller.session # NoValue /\ caller.session = booking.userId
  \/ caller.email # NoValue /\ toLowerCase(caller.email) = toLowerCase(booking.attendeeEmail)

\* a DELETE of p for a stored booking has been answered, and its caller is
\* neither the host nor the guest
StrangerAnswered(p) ==
  /\ req[p].op = "DELETE" /\ req[p].pc = "done"
  /\ req[p].uid <= Len(bookings)
  /\ ~HostOrGuest(args.caller[p], bookings[req[p].uid])

\* C20: a DELETE by a caller that is neither host nor guest is answered 401,
\* and no such request changes the booking, deletes its calendar event or
\* sends an email
C20_StrangerGets401 ==
  /\ \A p \in Procs : StrangerAnswered(p) => req[p].resp.status = 401
  /\ (\A p \in Procs : ~HostOrGuest(args.caller[p], Booking0)) =>
       /\ bookings = << [Booking0 EXCEPT !.status = args.status] >>
       /\ calendar = {[id |-> 1, start |-> T1400, end |-> T1430]}
       /\ \A uid \in Uids : mail[<< "cancellation", uid >>] = 0

\* a POST or PATCH of p whose body failed the schema has been answered
InvalidAnswered(r) == r.op \in {"POST", "PATCH"} /\ r.pc = "done" /\ ~r.valid

\* C21 as stated: a POST or PATCH whose body fails the schema is answered 400
\* by the step that received it, before any read of the database
C21_InvalidBodyGets400 ==
  \A p \in Procs :
    InvalidAnswered(req[p]) => req[p].resp.status = 400 /\ req[p].resp.at = "arrive"

\* C21: a POST or PATCH whose body fails the schema is answered by the step
\* that received it, before any read of the database, with 400, or with 429
\* when it is a POST the limiter refused; that step changes no booking, no
\* calendar event and sends no email
C21_InvalidBodyNeverReachesStore ==
  [][\A p \in Procs :
       (req'[p] # req[p] /\ ~req'[p].valid /\ req'[p].op \in {"POST", "PATCH"}) =>
         /\ req'[p].pc = "done" /\ req'[p].resp.at = "arrive"
         /\ req'[p].resp.status \in {400, 429}
         /\ req'[p].resp.status = 429 =>
              /\ req'[p].op = "POST"
              /\ RateKey \in DOMAIN rateLimitStore
              /\ rateLimitStore[RateKey].count >= BOOKING_MAX
              /\ rateLimitStore[RateKey].resetAt > now
         /\ UNCHANGED << bookings, calendar, mail >>
    ]_vars

\* a PATCH for a stored booking and a POST, both with bodies that fail the
\* schema, have been answered 400
C21_Witness ==
  \E p \in Procs, q \in Procs :
    /\ InvalidAnswered(req[p]) /\ req[p].op = "PATCH" /\ req[p].uid <= Len(bookings)
    /\ req[p].resp.status = 400
    /\ InvalidAnswered(req[q]) /\ req[q].op = "POST" /\ req[q].resp.status = 400

\* the event type has no row or its row has isActive = false
Inactive(e) == e \notin EventTypeIds \/ e \notin args.active

\* the step answers a request of p
Answers(p) == req'[p] # req[p] /\ req'[p].pc = "done"

\* C22 as stated: while an event type is inactive or missing, every POST
\* for it that is answered, unless with the stored booking of its key, and
\* every GET /availability for it is answered 404, and no row is inserted for it
C22_InactiveTypeGets404 ==
  [][/\ \A p \in Procs :
          (Answers(p) /\ req'[p].op \in {"POST", "GET"} /\ Inactive(req'[p].eventTypeId)
             /\ ~(req'[p].resp.status = 200 /\ req'[p].resp.at = "lookup")) =>
            req'[p].resp.status = 404
     /\ Len(bookings') > Len(bookings) =>
          ~Inactive(bookings'[Len(bookings')].eventTypeId)
    ]_vars

\* C22: a POST that passed the limiter and the schema and whose key is not
\* stored is answered 404, with no row inserted, when its lookup finds the
\* event type inactive or missing; a GET /availability that arrives for such
\* an event type is answered 404, or 400 or 429 before the lookup, and no
\* slots are computed; no row is ever inserted for a missing event type
C22_LookupOfInactiveTypeIs404 ==
  [][/\ \A p \in Procs :
          (req[p].op = "POST" /\ req[p].pc = "lookup" /\ req'[p] # req[p]
             /\ Inactive(req[p].eventTypeId)
             /\ \A i \in 1..Len(bookings) : bookings[i].idempotencyKey # req[p].key) =>
            /\ req'[p].pc = "done" /\ req'[p].resp.status = 404
            /\ UNCHANGED << bookings, calendar, mail >>
     /\ \A p \in Procs :
          (Free(p) /\ req'[p] # req[p] /\ req'[p].op = "GET"
             /\ Inactive(req'[p].eventTypeId)) =>
            /\ req'[p].pc = "done" /\ ret' = ret
            /\ req'[p].resp.status \in {404, 400, 429}
            /\ req'[p].resp.status = 400 => ~req'[p].valid
            /\ req'[p].resp.status = 429 =>
                 /\ AvailabilityKey \in DOMAIN rateLimitStore
                 /\ rateLimitStore[AvailabilityKey].count >= AVAILABILITY_MAX
     /\ Len(bookings') > Len(bookings) =>
          bookings'[Len(bookings')].eventTypeId \in EventTypeIds
    ]_vars

\* et1 was deactivated, a POST for it was answered 404 at the lookup and a
\* GET /availability for it 404, nothing being booked or computed
C22_Witness ==
  \E p \in Procs, q \in Procs :
    /\ "et1" \notin args.active
    /\ req[p].op = "POST" /\ req[p].eventTypeId = "et1" /\ req[p].pc = "done"
    /\ req[p].resp.status = 404 /\ req[p].resp.at = "lookup"
    /\ req[q].op = "GET" /\ req[q].eventTypeId = "et1" /\ req[q].pc = "done"
    /\ req[q].resp.status = 404
    /\ bookings = << >> /\ ret = NoCall

\* C23: the list returned by generateAvailableSlots is in strictly ascending
\* order of slot start
C23_SlotsStrictlyAscending ==
  ret.op = "generateAvailableSlots" =>
    \A i \in 1..Len(ret.slots) : \A j \in 1..Len(ret.slots) :
      i < j => ret.slots[i].start < ret.slots[j].start

\* the number of places of seq that hold x
RECURSIVE Count(_, _)
Count(seq, x) ==
  IF seq = << >> THEN 0
  ELSE (IF Head(seq) = x THEN 1 ELSE 0) + Count(Tail(seq), x)

\* the day of the month of instant t on the wall clock of zone tz, March 2024
LocalDayOfMonth(t, tz) ==
  LET offset == IF tz = "America/New_York" THEN 0 - 5 * 60 * 60 * 1000
                ELSE IF tz = "Asia/Tokyo" THEN 9 * 60 * 60 * 1000 ELSE 0
      wall == t + offset
  IN 4 + ((wall - (wall % 86400000)) \div 86400000)

\* the slots generateAvailableSlots returns for the arguments of the call
ListedSlots ==
  generateAvailableSlots(args.eventTypeId, args.startDate, args.endDate, now,
                         calendar, bookings, TRUE)

WallDay == args.date - (args.date % 86400000)
WallDayOfWeek == ((WallDay \div 86400000) + 1) % 7
DayRows == { i \in 1..Len(args.workingHours) : args.workingHours[i].day = WallDayOfWeek }

\* the instant at which the wall clock of the host's zone shows <<HH, mm>> on
\* the wall-clock day of the date argument
InstantAt(hhmm) ==
  WallDay + (hhmm[1] * 60 + hhmm[2]) * 60000
    + (IF args.adminTimezone # "America/New_York" THEN 0
       ELSE IF WallDay = 6 * 86400000 /\ hhmm[1] >= 3 THEN 4 * 60 * 60 * 1000
       ELSE 5 * 60 * 60 * 1000)

\* the wall clock of the host's zone shows <<HH, mm>> at some instant of the
\* wall-clock day of the date argument: New York skips 02:00-03:00 on
\* Sunday 2024-03-10
Shown(hhmm) ==
  ~(args.adminTimezone = "America/New_York" /\ WallDay = 6 * 86400000 /\ hhmm[1] = 2)

C26_OneWritableDestination ==
  /\ (ret.op \in {"POST /api/event-types", "PUT /api/event-types/[id]"}
        /\ ret.eventType.status \in {200, 201}) =>
       LET destinations == { a \in ret.eventType.calendars : a.isDestination } IN
       /\ Cardinality(destinations) = 1
       /\ \A a \in destinations :
            /\ CalendarRows[a.calendarId].isWritable
            /\ CalendarRows[a.calendarId].userId = args.session
            /\ a.calendarId \in args.body.calendarIds
  /\ ret.op = "POST /api/bookings" => ret.eventType.status # 500

\* C27: New York host with working hours 09:00-17:00 on Sunday 2024-03-10,
\* the day its wall clock jumps from 02:00 to 03:00: the first slot starts at
\* 13:00Z, the instant the wall clock shows 09:00; the wall clock shows
\* 09:00 + k * slotInterval at the start of the k-th next slot, a reading of
\* that day between 09:00 and 17:00; every slot lasts duration minutes
C27_SpringForwardDay ==
  (/\ ret.op = "generateDayCandidateSlots"
   /\ args.adminTimezone = "America/New_York"
   /\ WallDay = 6 * 86400000
   /\ args.workingHours = << [day |-> 0, start |-> <<9, 0>>, end |-> <<17, 0>>] >>) =>
    /\ Len(ret.slots) > 0
    /\ ret.slots[1].start = 6 * 86400000 + 13 * 60 * 60000
    /\ \A i \in 1..Len(ret.slots) :
         LET shown == ret.slots[i].start
                        - (IF ret.slots[i].start >= 6 * 86400000 + 7 * 60 * 60000
                           THEN 4 ELSE 5) * 60 * 60000
         IN /\ shown = WallDay + 9 * 60 * 60000 + (i - 1) * args.slotInterval * 60000
            /\ shown + args.duration * 60000 <= WallDay + 17 * 60 * 60000
            /\ ret.slots[i].end - ret.slots[i].start = args.duration * 60000

\* the slots of that Sunday for duration 45 and interval 30: fifteen slots,
\* from 13:00Z-13:45Z to 20:00Z-20:45Z (16:00-16:45 in New York)
C27_Witness ==
  /\ ret.op = "generateDayCandidateSlots"
  /\ args.adminTimezone = "America/New_York"
  /\ args.date = 6 * 86400000 + 570 * 60000
  /\ args.workingHours = << [day |-> 0, start |-> <<9, 0>>, end |-> <<17, 0>>] >>
  /\ args.duration = 45 /\ args.slotInterval = 30
  /\ Len(ret.slots) = 15
  /\ ret.slots[1] = [start |-> 6 * 86400000 + 780 * 60000, end |-> 6 * 86400000 + 825 * 60000]
  /\ ret.slots[15].end = 6 * 86400000 + 1245 * 60000

\* the working-hours interval, in wall-clock milliseconds of the host's zone
\* (winter offset, no change of offset in the week), of the host-local day on
\* which the asked slot starts: << 0, 0 >> for a day without working hours
AskedWallStart ==
  ret.startTime + (IF EventTypes[args.eventTypeId].timezone = "America/New_York"
                   THEN 0 - 5 * 60 * 60000 ELSE 0)
AskedWorkingInterval ==
  LET day == AskedWallStart - (AskedWallStart % 86400000)
      dow == ((day \div 86400000) + 1) % 7
      hours == EventTypes[args.eventTypeId].workingHours
      rows == { i \in 1..Len(hours) : hours[i].day = dow }
  IN IF rows = {} THEN << 0, 0 >>
     ELSE LET r == CHOOSE i \in rows : TRUE
          IN << day + (hours[r].start[1] * 60 + hours[r].start[2]) * 60000,
                day + (hours[r].end[1] * 60 + hours[r].end[2]) * 60000 >>

\* C28: isSlotAvailable returns true only if the whole interval
\* [startTime, endTime) lies inside the working hours of the host-local day
\* of startTime
C28_InsideWorkingHours ==
  (ret.op = "isSlotAvailable" /\ ret.available) =>
    /\ AskedWallStart >= AskedWorkingInterval[1]
    /\ AskedWallStart + EventTypes[args.eventTypeId].duration * 60000
         <= AskedWorkingInterval[2]

\* C29: the findFirst of isSlotAvailable finds a booking for the slot [s, e)
\* if and only if some CONFIRMED or PENDING booking [s', e') of the host has
\* s' < e and e' > s; a booking that shares only an endpoint with the slot is
\* no conflict
C29_ConflictIffOverlap ==
  ret.op = "findFirst" =>
    (ret.found <=>
       \E i \in 1..Len(ret.table) :
         /\ ret.table[i].userId = "admin1"
         /\ ret.table[i].status \in {"CONFIRMED", "PENDING"}
         /\ ret.table[i].startTime < args.slot.end
         /\ ret.table[i].endTime > args.slot.start)

\* nothing is found for the slot 14:15Z-14:30Z although the host has a
\* CONFIRMED booking ending at 14:15Z and a PENDING one starting at 14:30Z
C29_Witness ==
  /\ ret.op = "findFirst" /\ ~ret.found
  /\ args.slot = [start |-> 51300000, end |-> 52200000]
  /\ \E i \in 1..Len(ret.table) :
       /\ ret.table[i].userId = "admin1" /\ ret.table[i].status = "CONFIRMED"
       /\ ret.table[i].endTime = args.slot.start
  /\ \E i \in 1..Len(ret.table) :
       /\ ret.table[i].userId = "admin1" /\ ret.table[i].status = "PENDING"
       /\ ret.table[i].startTime = args.slot.end

\* C30: mergeBusyBlocks leaves its input array and every block in it as they
\* were: no start and no end is modified
C30_InputUnchanged ==
  ret.op = "mergeBusyBlocks" => ret.blocks = args.blocks

\* C31: a rateLimit decision reports remaining = max - (calls for the key in
\* the current window, this one included) when it allows the call and
\* remaining = 0 when it denies it; remaining is never negative, and the call
\* is denied exactly when that number of calls exceeds max
C31_RemainingIsMaxMinusCalls ==
  ret.op = "rateLimit" =>
    LET calls == granted[ret.key].calls
        max == CASE ret.key \in {"booking:ip1", "booking:ip2"} -> 10
                 [] ret.key = "availability:ip1" -> 30
                 [] ret.key = "oauth:u1" -> 5
    IN /\ ret.remaining >= 0
       /\ ret.success <=> calls <= max
       /\ ret.success => ret.remaining = max - calls
       /\ ~ret.success => ret.remaining = 0

\* the fifth oauth call of a window is allowed with nothing remaining
C31_Witness ==
  /\ ret.op = "rateLimit" /\ ret.key = "oauth:u1"
  /\ granted["oauth:u1"].calls = 5
  /\ ret.success /\ ret.remaining = 0

\* C32: the window of a key is fixed by its first call: every later call of
\* the key before resetAt, allowed or denied, returns the same resetAt and
\* leaves the window where it is; the first call at or after resetAt opens a
\* new window of windowMs, is allowed and reports remaining = max - 1
C32_WindowFixedByFirstCall ==
  [][\A key \in LimiterKeys :
       granted'[key] # granted[key] =>
         LET max == CASE key \in {"booking:ip1", "booking:ip2"} -> 10
                      [] key = "availability:ip1" -> 30
                      [] key = "oauth:u1" -> 5
             resetAt == granted[key].from + 60000
         IN /\ ret'.key = key
            /\ IF granted[key].open /\ now < resetAt
               THEN /\ ret'.resetAt = resetAt
                    /\ rateLimitStore'[key].resetAt = resetAt
               ELSE /\ ret'.success /\ ret'.remaining = max - 1
                    /\ ret'.resetAt = now + 60000
                    /\ rateLimitStore'[key].resetAt = now + 60000
    ]_vars

\* the oauth window opened at the start of the run is windowMs old: the call
\* made then opens a new window and is allowed with 4 remaining, while
\* another key is still in its earlier window
C32_Witness ==
  /\ ret.op = "rateLimit" /\ ret.key = "oauth:u1"
  /\ now = 47700000 + 60000
  /\ granted["oauth:u1"].from = now /\ granted["oauth:u1"].calls = 1
  /\ ret.success /\ ret.remaining = 4 /\ ret.resetAt = now + 60000
  /\ \E other \in LimiterKeys \ {"oauth:u1"} :
       granted[other].open /\ granted[other].from < now

\* the entry of a limiter key in a store, as the clock sees it: the calls of
\* the window under way, 0 when the key has no window or its window is over
CallsInWindow(store, key) ==
  IF key \in DOMAIN store THEN (IF store[key].resetAt > now THEN store[key].count ELSE 0)
  ELSE 0

\* C33: in POST /bookings and GET /availability the limiter decides first: a
\* request that arrives when the caller's window is used up is answered 429
\* with X-RateLimit-Remaining and X-RateLimit-Reset by the step that received
\* it, whatever its body, and that step touches neither the Booking table nor
\* the calendar nor the mail; no other request is answered 429; every
\* request, valid or not, new or a retry, adds one call to the caller's
\* window
C33_LimiterDecidesFirst ==
  [][\A p \in Procs :
       (Free(p) /\ req'[p] # req[p] /\ req'[p].op \in {"POST", "GET"}) =>
         LET key == IF req'[p].op = "POST" THEN "booking:ip1" ELSE "availability:ip1"
             max == IF req'[p].op = "POST" THEN 10 ELSE 30
             calls == CallsInWindow(rateLimitStore, key)
         IN /\ CallsInWindow(rateLimitStore', key) = calls + 1
            /\ calls >= max =>
                 /\ req'[p].pc = "done"
                 /\ req'[p].resp.status = 429 /\ req'[p].resp.at = "arrive"
                 /\ req'[p].resp.headers = << 0, rateLimitStore[key].resetAt >>
                 /\ bookings' = bookings /\ calendar' = calendar /\ mail' = mail
            /\ calls < max =>
                 ~(req'[p].pc = "done" /\ req'[p].resp.status = 429)
    ]_vars

\* a POST with an invalid body was the 11th call of the booking window and
\* has been answered 429 with the two headers, while a GET of the same
\* client, counted in the availability window, was served
C33_Witness ==
  \E p \in Procs, q \in Procs :
    /\ req[p].op = "POST" /\ req[p].pc = "done" /\ req[p].resp.status = 429
    /\ ~req[p].valid
    /\ req[p].resp.headers = << 0, 47700000 + 60000 >>
    /\ rateLimitStore["booking:ip1"].count = 11
    /\ req[q].op = "GET" /\ req[q].pc = "done" /\ req[q].resp.status = 200

\* C34: CANCELLED is terminal: the status of a CANCELLED booking never
\* changes; a DELETE never writes to a booking that is already CANCELLED (so
\* cancelledAt and cancelReason stay as the first cancellation set them) and
\* no booking gets a second cancellation email
C34_CancelledIsTerminal ==
  [][\A i \in 1..Len(bookings) :
       /\ bookings[i].status = "CANCELLED" =>
            /\ bookings'[i].status = "CANCELLED"
            /\ \A p \in Procs :
                 ~(/\ req[p].op = "DELETE" /\ req[p].uid = i
                   /\ req[p].pc = "cancel" /\ req'[p].pc = "cleanup")
       /\ mail'[<< "cancellation", i >>] <= 1
    ]_vars

\* C35: the start and end of a booking whose status is CANCELLED or
\* COMPLETED never change, whatever PATCH and DELETE requests are under way
C35_CancelledKeepsItsTime ==
  [][\A i \in 1..Len(bookings) :
       bookings[i].status \in {"CANCELLED", "COMPLETED"} =>
         /\ bookings'[i].startTime = bookings[i].startTime
         /\ bookings'[i].endTime = bookings[i].endTime
    ]_vars

\* C36: a PATCH by an authorized caller to a new time inside working hours,
\* notice and window, which overlaps no event of the calendar other than the
\* booking's own and no other CONFIRMED or PENDING booking of the host, is not
\* refused as unavailable, also when the new interval overlaps the current
\* interval of the booking itself (stated for requests during which the
\* environment did nothing: envEvents = 0; the working hours of the host are
\* Monday 14:00Z-15:00Z)
C36_NoConflictWithItself ==
  [][\A p \in Procs :
       (/\ req[p].op = "PATCH" /\ req[p].pc \in {"avail1", "avail2"}
        /\ req'[p].pc = "done" /\ req'[p].resp.status = 409
        /\ envEvents = 0) =>
         LET r == req[p]
             config == EventTypes[r.eventTypeId]
         IN \/ r.startTime < now + config.minimumNotice * 60000
            \/ r.startTime > now + config.schedulingWindow * 86400000
            \/ r.startTime < 50400000 \/ r.endTime > 54000000
            \/ \E ev \in calendar :
                 /\ ev.id # bookings[r.uid].googleEventId
                 /\ Overlap(ev.start, ev.end, r.startTime - config.bufferBefore * 60000,
                            r.endTime + config.bufferAfter * 60000)
            \/ \E i \in 1..Len(bookings) :
                 /\ i # r.uid
                 /\ bookings[i].userId = config.userId
                 /\ bookings[i].status \in {"CONFIRMED", "PENDING"}
                 /\ Overlap(bookings[i].startTime, bookings[i].endTime, r.startTime, r.endTime)
    ]_vars

\* C37: a POST /bookings response that reports success (200 or 201 with a
\* booking) refers to a booking whose status is PENDING or CONFIRMED when the
\* response is given
C37_SuccessMeansLiveBooking ==
  [][\A p \in Procs :
       (/\ req'[p].op = "POST" /\ req'[p] # req[p] /\ req'[p].pc = "done"
        /\ req'[p].resp.status \in {200, 201}) =>
         bookings'[req'[p].resp.uid].status \in {"PENDING", "CONFIRMED"}
    ]_vars

\* C38: a getCompositeBusy that runs while POST /api/calendars is under way
\* sees the previous selection or the new one: a calendar selected both
\* before and after the update is never left out
C38_SelectionNeverHalfWritten ==
  ret.op = "getCompositeBusy" =>
    (args.before \cap args.calendarIds) \subseteq ret.calendars

\* the minutes after midnight of the wall-clock reading <<HH, mm>>
MinutesOf(hhmm) == hhmm[1] * 60 + hhmm[2]

\* C39: for every event type the schema accepts, generateDayCandidateSlots
\* returns, with no more slots than there are steps of slotInterval in the
\* hours two digits can name; working hours whose end is not after their
\* start, or that are shorter than the duration, give no slot for that day
C39_EmptyHoursGiveNoSlot ==
  ret.op = "generateDayCandidateSlots" =>
    /\ Len(ret.slots) <= (100 * 60) \div args.slotInterval
    /\ \A r \in DayRows :
         LET workStart == MinutesOf(args.workingHours[r].start)
             workEnd == MinutesOf(args.workingHours[r].end)
         IN (workEnd <= workStart \/ workEnd - workStart < args.duration)
              => ret.slots = << >>

====
